---- MODULE Spec2Model ----
(***************************************************************************)
(* smrec: the recording-control pipeline of src/main.rs.                   *)
(*                                                                         *)
(* The controller (main thread) runs listen_and_block_main_thread, which   *)
(* consumes Actions from the to-controller channel and calls new_recording *)
(* or stop_recording.  Both are modelled statement by statement (pc), so   *)
(* that the ctrl-c handler thread and the control sources interleave with  *)
(* them as OS threads do.                                                  *)
(***************************************************************************)
EXTENDS Integers, Sequences, FiniteSets, TLC

(* ---------------------------------------------------------------------- *)
(* Bounds                                                                  *)
(* ---------------------------------------------------------------------- *)
\* Total number of actions the sources put on the to-controller channel.
MaxActions == 3
\* Number of recorded channels (SmrecConfig::channels_to_record().len()).
NumChannels == 2

\* Capture-callback runs: actions sent and callback invocations.
MaxCbActions == 2
MaxCallbacks == 2

\* De-interleaving runs: device channels and frames of one input buffer.
MaxDevChannels == 4
MaxFrames == 2

\* MIDI input runs: triples configured for one port, and the values the
\* triples and the messages are drawn from.
MaxTriples == 2
CfgChannels == {1, 255}
CcNumbers == {10, 11}
CcValues == {0, 127}
MsgTypes == {9, 11}
MsgChannels == 0 .. 15

\* Parser runs: ports written in a mapping text and triples per port.
MaxPorts == 2
MaxListLen == 2

\* MIDI set-up runs: patterns of the input mapping and hardware ports.
MaxPatterns == 2
MaxHwPorts == 2

\* OSC runs: messages and bundles, counted together, of one packet.
MaxOscNodes == 4

\* Notifier runs: actions sent by the control sources.
MaxNotifActions == 2

\* Channel-selection runs: numbers in an --include or --exclude list.
MaxCliList == 2
MaxStarts == 3
MaxTicks == 2
FirstSecond == 7

Sources == {"midi", "osc"}
Actions == {"Start", "Stop", "Err"}
SourceActions == {"Start", "Stop"}

\* Every Start creates at most one session (writer set) and one stream.
Sessions == 1 .. MaxActions
Streams == 1 .. MaxActions
Channels == 1 .. NumChannels

NoAction == [src |-> "none", n |-> 0, act |-> "none"]

VARIABLES
    proc,               \* "running" | "panicked" | "exited" | "killed"
    pc,                 \* position of the controller thread
    cur,                \* the action the controller is handling
    from_state,         \* "Idle" / "Recording": stream_container at the call
    result,             \* "none" | "Ok" | "Err": value start()/stop() returned
    failure,            \* the step of the current start()/stop() that failed
    stream_container,   \* 0 = None, else the stream held
    sstate,             \* stream -> "none" | "built" | "playing" | "paused" | "dropped"
    new_stream,         \* local new_stream of new_recording (0 = not built)
    writers_container,  \* 0 = None, else the session whose handles it holds
    wstate,             \* session -> channel -> "none" | "open" | "finalized" | "dropped" | "broken"
    new_writers,        \* local writers of new_recording / SmrecConfig::writers
    nw_i,               \* next channel SmrecConfig::writers creates
    fin_s,              \* controller: local writers of finalize_writers_if_some
    fin_i,              \* controller: next handle of the finalize loop
    fin_ret,            \* controller: caller of finalize ("nr" | "sr")
    sr_stream,          \* local stream of stop_recording (0 = none)
    handler_set,        \* ctrl-c handler registered
    hpc,                \* position of the ctrl-c handler thread
    hfin_s,             \* handler: local writers of finalize_writers_if_some
    hfin_i,             \* handler: next handle of the finalize loop
    at_sigint,          \* history: session recorded into when SIGINT came with
                        \* the controller idle (0: none, or controller busy)
    to_controller,      \* channel sources -> controller (from_listener_thread)
    from_controller,    \* channel controller -> notifiers (to_listener_thread)
    sent,               \* history: every action in the order it was enqueued
    processed,          \* history: every action in the order it was consumed
    outcomes,           \* history: result of every Start/Stop consumed
    handler_by,         \* 0 = no handler, else the registration attempt that installed it
    reg_attempts,       \* number of ctrlc::try_set_handler calls so far
    fincount,           \* session -> channel -> number of finalize() calls on the writer
    cmutex,             \* owner of the writers-container mutex: "free" | "ctl" | "handler" | "cb"
    cbpc,               \* position of the capture callback: "idle" | "lock" | "write"
    cb_s,               \* callback: the writers it found in the container (0 = None)
    cb_i,               \* callback: next channel buffer to write
    cb_wrote,           \* callback: <<session, channel>> written by this invocation
    ncb,                \* number of callback invocations so far
    midi_io,            \* one MIDI input callback: configs, message, actions sent
    process_io,         \* one de-interleave of the capture callback: input, buffers
    call,               \* one call of a start-up or notifier function: fn, arg, done, ret
    notif_cfg,          \* the notifier threads there are: subset of {"osc", "midi_out"}
    notif_next,         \* number of outcomes received from the from-controller channel
    osc_sent,           \* OSC messages the OSC messaging thread sent
    midi_rx             \* outcomes the MIDI output thread received

ctlVars == <<pc, cur, from_state, result, failure, new_stream, new_writers,
             nw_i, fin_s, fin_i, fin_ret, sr_stream>>
resVars == <<stream_container, sstate, writers_container, wstate>>
hVars == <<hpc, hfin_s, hfin_i, at_sigint>>
busVars == <<to_controller, from_controller, sent, processed, outcomes>>
regVars == <<handler_by, reg_attempts>>
cbVars == <<cbpc, cb_s, cb_i, cb_wrote, ncb>>
pureVars == <<midi_io, process_io, call>>
notifVars == <<notif_cfg, notif_next, osc_sent, midi_rx>>
vars == <<proc, ctlVars, resVars, handler_set, hVars, busVars, regVars,
          fincount, cmutex, cbVars, pureVars, notifVars>>

(* ---------------------------------------------------------------------- *)
(* Helpers                                                                 *)
(* ---------------------------------------------------------------------- *)
\* ids not yet used: streams/sessions are numbered in creation order
NextStream == CHOOSE s \in Streams : sstate[s] = "none" /\
                  \A t \in Streams : t < s => sstate[t] # "none"
NextSession == CHOOSE s \in Sessions : (\A c \in Channels : wstate[s][c] = "none") /\
                  \A t \in Sessions : t < s => \E c \in Channels : wstate[t][c] # "none"

\* stream.pause() returning Ok
PauseStreamSkipped(ss, s) == ss
PauseStream(ss, s) == [ss EXCEPT ![s] = "paused"]

\* dropping a cpal::Stream destroys it
DropStream(ss, s) == IF s = 0 THEN ss ELSE [ss EXCEPT ![s] = "dropped"]

\* dropping the handles of a session without finalize(): hound's Drop closes
\* the writers that are still open
DropWriters(ws, s) ==
    IF s = 0 THEN ws
    ELSE [ws EXCEPT ![s] = [c \in Channels |->
                               IF ws[s][c] = "open" THEN "dropped" ELSE ws[s][c]]]

\* ctrlc::try_set_handler: installs the handler only when none is installed
\* (h = installed handler, 0 = none; n = this registration attempt)
SetHandlerReplaces(h, n) == n
TrySetHandler(h, n) == IF h = 0 THEN n ELSE h

\* crossbeam recv(): the position of the queue that is received
RecvPosLast(q) == Len(q)
RecvPos(q) == 1

RemoveAt(q, i) == [j \in 1 .. Len(q) - 1 |-> IF j < i THEN q[j] ELSE q[j + 1]]

CountOf(seq, s) == Cardinality({i \in 1 .. Len(seq) : seq[i].src = s})

(* ---------------------------------------------------------------------- *)
(* Initial state: main() after the containers and channels were created    *)
(* ---------------------------------------------------------------------- *)
InitBase ==
    /\ proc = "running"
    /\ pc = "recv"
    /\ cur = NoAction
    /\ from_state = "none"
    /\ result = "none"
    /\ failure = "none"
    /\ stream_container = 0
    /\ sstate = [s \in Streams |-> "none"]
    /\ new_stream = 0
    /\ writers_container = 0
    /\ wstate = [s \in Sessions |-> [c \in Channels |-> "none"]]
    /\ new_writers = 0
    /\ nw_i = 0
    /\ fin_s = 0
    /\ fin_i = 0
    /\ fin_ret = "none"
    /\ sr_stream = 0
    /\ handler_set = FALSE
    /\ hpc = "idle"
    /\ hfin_s = 0
    /\ hfin_i = 0
    /\ at_sigint = 0
    /\ to_controller = <<>>
    /\ from_controller = <<>>
    /\ sent = <<>>
    /\ processed = <<>>
    /\ outcomes = <<>>
    /\ handler_by = 0
    /\ reg_attempts = 0
    /\ fincount = [s \in Sessions |-> [c \in Channels |-> 0]]
    /\ cmutex = "free"
    /\ cbpc = "idle"
    /\ cb_s = 0
    /\ cb_i = 0
    /\ cb_wrote = {}
    /\ ncb = 0
    /\ notif_next = 0
    /\ osc_sent = <<>>
    /\ midi_rx = <<>>

\* neither --osc nor a MIDI output mapping is given: no notifier thread
InitCore == InitBase /\ notif_cfg = {}

\* no MIDI message and no capture buffer is being looked at
MidiIdle == [cfg |-> <<>>, msg |-> <<>>, done |-> FALSE, out |-> <<>>]
ProcessIdle == [n |-> 0, chans |-> <<>>, data |-> <<>>, done |-> FALSE,
                panic |-> FALSE, out |-> <<>>]

CallIdle == [fn |-> "none", arg |-> <<>>, done |-> FALSE, ret |-> <<>>]

Init ==
    /\ InitCore
    /\ midi_io = MidiIdle
    /\ process_io = ProcessIdle
    /\ call = CallIdle

(* ---------------------------------------------------------------------- *)
(* Control sources                                                         *)
(* ---------------------------------------------------------------------- *)
\* to_main_thread.send(action) of a MIDI port callback or the OSC thread
Send(s, a) ==
    /\ proc = "running"
    /\ Len(sent) < MaxActions
    /\ LET e == [src |-> s, n |-> CountOf(sent, s) + 1, act |-> a]
       IN /\ to_controller' = Append(to_controller, e)
          /\ sent' = Append(sent, e)
    /\ UNCHANGED <<proc, ctlVars, resVars, handler_set, hVars,
                   from_controller, processed, outcomes>>
    /\ UNCHANGED <<regVars, fincount, cmutex, cbVars, pureVars, notifVars>>

(* ---------------------------------------------------------------------- *)
(* listen_and_block_main_thread                                            *)
(* ---------------------------------------------------------------------- *)
\* from_listener_thread.recv() and the match on the action
RecvStart ==
    /\ proc = "running" /\ pc = "recv" /\ to_controller # <<>>
    /\ LET i == RecvPos(to_controller) IN
       /\ to_controller[i].act = "Start"
       /\ cur' = to_controller[i]
       /\ processed' = Append(processed, to_controller[i])
       /\ to_controller' = RemoveAt(to_controller, i)
    /\ pc' = "nr_begin"
    /\ from_state' = IF stream_container = 0 THEN "Idle" ELSE "Recording"
    /\ result' = "none" /\ failure' = "none"
    /\ UNCHANGED <<sr_stream, proc, new_stream, new_writers, nw_i, fin_s, fin_i, fin_ret,
                   resVars, handler_set, hVars, from_controller, sent, outcomes>>
    /\ UNCHANGED <<regVars, fincount, cmutex, cbVars, pureVars, notifVars>>

RecvStop ==
    /\ proc = "running" /\ pc = "recv" /\ to_controller # <<>>
    /\ LET i == RecvPos(to_controller) IN
       /\ to_controller[i].act = "Stop"
       /\ cur' = to_controller[i]
       /\ processed' = Append(processed, to_controller[i])
       /\ to_controller' = RemoveAt(to_controller, i)
    /\ pc' = "sr_begin"
    /\ from_state' = IF stream_container = 0 THEN "Idle" ELSE "Recording"
    /\ result' = "none" /\ failure' = "none"
    /\ UNCHANGED <<sr_stream, proc, new_stream, new_writers, nw_i, fin_s, fin_i, fin_ret,
                   resVars, handler_set, hVars, from_controller, sent, outcomes>>
    /\ UNCHANGED <<regVars, fincount, cmutex, cbVars, pureVars, notifVars>>

\* Ok(Action::Err(err)) => println!
RecvErrEcho ==
    /\ proc = "running" /\ pc = "recv" /\ to_controller # <<>>
    /\ LET i == RecvPos(to_controller) IN
       /\ to_controller[i].act = "Err"
       /\ processed' = Append(processed, to_controller[i])
       /\ to_controller' = RemoveAt(to_controller, i)
    /\ from_controller' = Append(from_controller, "Err")
    /\ UNCHANGED <<proc, ctlVars, resVars, handler_set, hVars, sent, outcomes>>
    /\ UNCHANGED <<regVars, fincount, cmutex, cbVars, pureVars, notifVars>>

RecvErr ==
    /\ proc = "running" /\ pc = "recv" /\ to_controller # <<>>
    /\ LET i == RecvPos(to_controller) IN
       /\ to_controller[i].act = "Err"
       /\ processed' = Append(processed, to_controller[i])
       /\ to_controller' = RemoveAt(to_controller, i)
    /\ UNCHANGED <<proc, ctlVars, resVars, handler_set, hVars,
                   from_controller, sent, outcomes>>
    /\ UNCHANGED <<regVars, fincount, cmutex, cbVars, pureVars, notifVars>>

\* to_listener_thread.send(..): the action itself on Ok, Action::Err on Err
Ack ==
    /\ proc = "running" /\ pc = "ack" /\ cur.src # "main"
    /\ from_controller' = Append(from_controller,
                                 IF result = "Ok" THEN cur.act ELSE "Err")
    /\ outcomes' = Append(outcomes, result)
    /\ pc' = "recv"
    /\ UNCHANGED <<sr_stream, proc, cur, from_state, result, failure, new_stream,
                   new_writers, nw_i, fin_s, fin_i, fin_ret, resVars,
                   handler_set, hVars, to_controller, sent, processed>>
    /\ UNCHANGED <<regVars, fincount, cmutex, cbVars, pureVars, notifVars>>

(* ---------------------------------------------------------------------- *)
(* finalize_writers_if_some, as called by the controller                   *)
(* ---------------------------------------------------------------------- *)
\* where the controller continues when finalize_writers_if_some returned Ok
FinReturn ==
    /\ pc' = IF fin_ret = "nr" THEN "nr_base" ELSE "sr_return"
    /\ fin_s' = 0 /\ fin_i' = 0 /\ fin_ret' = "none"

\* the handles are read and left in the container
FinTakeKeeps ==
    /\ proc = "running" /\ pc = "fin_take"
    /\ cmutex = "free"
    /\ cmutex' = "ctl"
    /\ fin_s' = writers_container
    /\ pc' = "fin_unlock"
    /\ UNCHANGED <<sr_stream, result, proc, cur, from_state, failure, new_stream,
                   new_writers, nw_i, fin_i, fin_ret, resVars, handler_set,
                   hVars, busVars>>
    /\ UNCHANGED <<regVars, fincount, cbVars, pureVars, notifVars>>

\* let writers = writers.lock().unwrap().take();
FinTake ==
    /\ proc = "running" /\ pc = "fin_take"
    /\ cmutex = "free"
    /\ cmutex' = "ctl"
    /\ fin_s' = writers_container
    /\ writers_container' = 0
    /\ pc' = "fin_unlock"
    /\ UNCHANGED <<sr_stream, result, proc, cur, from_state, failure, new_stream,
                   new_writers, nw_i, fin_i, fin_ret, stream_container, sstate,
                   wstate, handler_set, hVars, busVars>>
    /\ UNCHANGED <<regVars, fincount, cbVars, pureVars, notifVars>>

\* the guard of the container mutex is released at the end of the statement;
\* if let Some(writers) = writers { for .. } else Ok(())
FinUnlockPanics ==
    /\ proc = "running" /\ pc = "fin_unlock"
    /\ cmutex' = "free"
    /\ IF fin_s = 0
       THEN /\ pc' = "panicked" /\ proc' = "panicked"
            /\ UNCHANGED <<fin_s, fin_i, fin_ret>>
       ELSE /\ fin_i' = 1 /\ pc' = "fin_loop"
            /\ UNCHANGED <<proc, fin_s, fin_ret>>
    /\ UNCHANGED <<sr_stream, result, cur, from_state, failure, new_stream,
                   new_writers, nw_i, resVars, handler_set, hVars, busVars>>
    /\ UNCHANGED <<regVars, fincount, cbVars, pureVars, notifVars>>

FinUnlock ==
    /\ proc = "running" /\ pc = "fin_unlock"
    /\ cmutex' = "free"
    /\ IF fin_s = 0
       THEN FinReturn
       ELSE /\ fin_i' = 1 /\ pc' = "fin_loop"
            /\ UNCHANGED <<fin_s, fin_ret>>
    /\ UNCHANGED <<sr_stream, result, proc, cur, from_state, failure, new_stream,
                   new_writers, nw_i, resVars, handler_set, hVars, busVars>>
    /\ UNCHANGED <<regVars, fincount, cbVars, pureVars, notifVars>>

\* one iteration of the loop: take the writer out of its handle, finalize it
FinOneOk ==
    /\ proc = "running" /\ pc = "fin_loop"
    /\ IF wstate[fin_s][fin_i] = "open"
       THEN /\ wstate' = [wstate EXCEPT ![fin_s][fin_i] = "finalized"]
            /\ fincount' = [fincount EXCEPT ![fin_s][fin_i] = @ + 1]
       ELSE UNCHANGED <<wstate, fincount>>
    /\ IF fin_i = NumChannels
       THEN FinReturn
       ELSE /\ fin_i' = fin_i + 1
            /\ UNCHANGED <<pc, fin_s, fin_ret>>
    /\ UNCHANGED <<sr_stream, result, proc, cur, from_state, failure, new_stream,
                   new_writers, nw_i, stream_container, sstate,
                   writers_container, handler_set, hVars, busVars>>
    /\ UNCHANGED <<regVars, cmutex, cbVars, pureVars, notifVars>>

\* writer.finalize() returns Err: unwrap() panics the main thread; unwinding
\* drops the handles that were taken
FinOnePanic ==
    /\ proc = "running" /\ pc = "fin_loop"
    /\ wstate[fin_s][fin_i] = "open"
    /\ wstate' = DropWriters([wstate EXCEPT ![fin_s][fin_i] = "broken"], fin_s)
    /\ failure' = "finalize"
    /\ pc' = "panicked" /\ proc' = "panicked"
    /\ UNCHANGED <<sr_stream, cur, from_state, result, new_stream, new_writers, nw_i, fin_s,
                   fin_i, fin_ret, stream_container, sstate, writers_container,
                   handler_set, hVars, busVars>>
    /\ UNCHANGED <<regVars, fincount, cmutex, cbVars, pureVars, notifVars>>

(* ---------------------------------------------------------------------- *)
(* new_recording                                                           *)
(* ---------------------------------------------------------------------- *)
\* if let Some(stream) = stream_container.borrow_mut().as_mut() { stream.pause()?; ..
NrBeginIdle ==
    /\ proc = "running" /\ pc = "nr_begin"
    /\ stream_container = 0
    /\ pc' = "nr_base"
    /\ UNCHANGED <<sr_stream, proc, cur, from_state, result, failure, new_stream,
                   new_writers, nw_i, fin_s, fin_i, fin_ret, resVars,
                   handler_set, hVars, busVars>>
    /\ UNCHANGED <<regVars, fincount, cmutex, cbVars, pureVars, notifVars>>

NrPauseOk ==
    /\ proc = "running" /\ pc = "nr_begin"
    /\ stream_container # 0
    /\ sstate' = PauseStream(sstate, stream_container)
    /\ pc' = "fin_take" /\ fin_ret' = "nr"
    /\ UNCHANGED <<sr_stream, proc, cur, from_state, result, failure, new_stream,
                   new_writers, nw_i, fin_s, fin_i, stream_container,
                   writers_container, wstate, handler_set, hVars, busVars>>
    /\ UNCHANGED <<regVars, fincount, cmutex, cbVars, pureVars, notifVars>>

\* stream.pause()? returns Err: the stream stays in the container as it was
NrPauseErr ==
    /\ proc = "running" /\ pc = "nr_begin"
    /\ stream_container # 0
    /\ result' = "Err" /\ failure' = "pause"
    /\ pc' = "ack"
    /\ UNCHANGED <<sr_stream, proc, cur, from_state, new_stream, new_writers, nw_i, fin_s,
                   fin_i, fin_ret, resVars, handler_set, hVars, busVars>>
    /\ UNCHANGED <<regVars, fincount, cmutex, cbVars, pureVars, notifVars>>

\* SmrecConfig::writers up to the loop: base path exists, create_dir_all
NrBaseOk ==
    /\ proc = "running" /\ pc = "nr_base"
    /\ new_writers' = NextSession /\ nw_i' = 1
    /\ pc' = "nr_create"
    /\ UNCHANGED <<sr_stream, proc, cur, from_state, result, failure, new_stream, fin_s,
                   fin_i, fin_ret, resVars, handler_set, hVars, busVars>>
    /\ UNCHANGED <<regVars, fincount, cmutex, cbVars, pureVars, notifVars>>

\* bail!("Output path .. does not exist") or create_dir_all(..)? fails
NrBaseErr ==
    /\ proc = "running" /\ pc = "nr_base"
    /\ result' = "Err" /\ failure' = "base"
    /\ pc' = "ack"
    /\ UNCHANGED <<sr_stream, proc, cur, from_state, new_stream, new_writers, nw_i, fin_s,
                   fin_i, fin_ret, resVars, handler_set, hVars, busVars>>
    /\ UNCHANGED <<regVars, fincount, cmutex, cbVars, pureVars, notifVars>>

\* hound::WavWriter::create(..) succeeds for the next channel
NrCreateOk ==
    /\ proc = "running" /\ pc = "nr_create"
    /\ wstate' = [wstate EXCEPT ![new_writers][nw_i] = "open"]
    /\ IF nw_i = NumChannels
       THEN pc' = "nr_replace" /\ nw_i' = 0
       ELSE pc' = pc /\ nw_i' = nw_i + 1
    /\ UNCHANGED <<sr_stream, proc, cur, from_state, result, failure, new_stream,
                   new_writers, fin_s, fin_i, fin_ret, stream_container, sstate,
                   writers_container, handler_set, hVars, busVars>>
    /\ UNCHANGED <<regVars, fincount, cmutex, cbVars, pureVars, notifVars>>

\* hound::WavWriter::create(..) fails: .expect("Failed to create wav writer.")
\* panics the main thread; unwinding drops the writers created so far
NrCreatePanic ==
    /\ proc = "running" /\ pc = "nr_create"
    /\ wstate' = DropWriters(wstate, new_writers)
    /\ failure' = "create"
    /\ pc' = "panicked" /\ proc' = "panicked"
    /\ UNCHANGED <<sr_stream, cur, from_state, result, new_stream, new_writers, nw_i, fin_s,
                   fin_i, fin_ret, stream_container, sstate, writers_container,
                   handler_set, hVars, busVars>>
    /\ UNCHANGED <<regVars, fincount, cmutex, cbVars, pureVars, notifVars>>

\* writer_handles.lock().unwrap().replace(writers): the old value is dropped
NrReplace ==
    /\ proc = "running" /\ pc = "nr_replace"
    /\ cmutex = "free"
    /\ cmutex' = "ctl"
    /\ writers_container' = new_writers
    /\ wstate' = DropWriters(wstate, writers_container)
    /\ new_writers' = 0
    /\ pc' = "nr_unlock"
    /\ UNCHANGED <<sr_stream, proc, cur, from_state, result, failure, new_stream, nw_i,
                   fin_s, fin_i, fin_ret, stream_container, sstate, handler_set,
                   hVars, busVars>>
    /\ UNCHANGED <<regVars, fincount, cbVars, pureVars, notifVars>>

\* the guard of the container mutex is released at the end of the statement
NrReplaceUnlock ==
    /\ proc = "running" /\ pc = "nr_unlock"
    /\ cmutex' = "free"
    /\ pc' = "nr_handler"
    /\ UNCHANGED <<sr_stream, proc, cur, from_state, result, failure, new_stream,
                   new_writers, nw_i, fin_s, fin_i, fin_ret, resVars,
                   handler_set, hVars, busVars>>
    /\ UNCHANGED <<regVars, fincount, cbVars, pureVars, notifVars>>

\* let _ = ctrlc::try_set_handler(..): the error of a second call is ignored
NrSetHandler ==
    /\ proc = "running" /\ pc = "nr_handler"
    /\ reg_attempts' = reg_attempts + 1
    /\ handler_by' = TrySetHandler(handler_by, reg_attempts + 1)
    /\ handler_set' = TRUE
    /\ pc' = "nr_build"
    /\ UNCHANGED <<sr_stream, proc, cur, from_state, result, failure, new_stream,
                   new_writers, nw_i, fin_s, fin_i, fin_ret, resVars, hVars,
                   busVars>>
    /\ UNCHANGED <<fincount, cmutex, cbVars, pureVars, notifVars>>

\* stream::build(..)? succeeds
NrBuildOk ==
    /\ proc = "running" /\ pc = "nr_build"
    /\ new_stream' = NextStream
    /\ sstate' = [sstate EXCEPT ![NextStream] = "built"]
    /\ pc' = "nr_play"
    /\ UNCHANGED <<sr_stream, proc, cur, from_state, result, failure, new_writers, nw_i,
                   fin_s, fin_i, fin_ret, stream_container, writers_container,
                   wstate, handler_set, hVars, busVars>>
    /\ UNCHANGED <<regVars, fincount, cmutex, cbVars, pureVars, notifVars>>

\* stream::build(..)? fails
NrBuildErr ==
    /\ proc = "running" /\ pc = "nr_build"
    /\ result' = "Err" /\ failure' = "build"
    /\ pc' = "ack"
    /\ UNCHANGED <<sr_stream, proc, cur, from_state, new_stream, new_writers, nw_i, fin_s,
                   fin_i, fin_ret, resVars, handler_set, hVars, busVars>>
    /\ UNCHANGED <<regVars, fincount, cmutex, cbVars, pureVars, notifVars>>

\* new_stream.play()? succeeds
NrPlayOk ==
    /\ proc = "running" /\ pc = "nr_play"
    /\ sstate' = [sstate EXCEPT ![new_stream] = "playing"]
    /\ pc' = "nr_store"
    /\ UNCHANGED <<sr_stream, proc, cur, from_state, result, failure, new_stream,
                   new_writers, nw_i, fin_s, fin_i, fin_ret, stream_container,
                   writers_container, wstate, handler_set, hVars, busVars>>
    /\ UNCHANGED <<regVars, fincount, cmutex, cbVars, pureVars, notifVars>>

\* new_stream.play()? fails: new_stream is dropped on return
NrPlayErr ==
    /\ proc = "running" /\ pc = "nr_play"
    /\ sstate' = DropStream(sstate, new_stream)
    /\ new_stream' = 0
    /\ result' = "Err" /\ failure' = "play"
    /\ pc' = "ack"
    /\ UNCHANGED <<sr_stream, proc, cur, from_state, new_writers, nw_i, fin_s, fin_i,
                   fin_ret, stream_container, writers_container, wstate,
                   handler_set, hVars, busVars>>
    /\ UNCHANGED <<regVars, fincount, cmutex, cbVars, pureVars, notifVars>>

\* stream_container.borrow_mut().replace(new_stream); Ok(())
NrStore ==
    /\ proc = "running" /\ pc = "nr_store"
    /\ sstate' = DropStream(sstate, stream_container)
    /\ stream_container' = new_stream
    /\ new_stream' = 0
    /\ result' = "Ok"
    /\ pc' = "ack"
    /\ UNCHANGED <<sr_stream, proc, cur, from_state, failure, new_writers, nw_i, fin_s,
                   fin_i, fin_ret, writers_container, wstate, handler_set,
                   hVars, busVars>>
    /\ UNCHANGED <<regVars, fincount, cmutex, cbVars, pureVars, notifVars>>

(* ---------------------------------------------------------------------- *)
(* stop_recording                                                          *)
(* ---------------------------------------------------------------------- *)
\* stream_container.borrow_mut().take() is None: Ok(())
SrIdleFinalizes ==
    /\ proc = "running" /\ pc = "sr_begin"
    /\ stream_container = 0
    /\ pc' = "fin_take" /\ fin_ret' = "sr"
    /\ UNCHANGED <<sr_stream, proc, cur, from_state, result, failure, new_stream,
                   new_writers, nw_i, fin_s, fin_i, resVars, handler_set,
                   hVars, busVars>>
    /\ UNCHANGED <<regVars, fincount, cmutex, cbVars, pureVars, notifVars>>

SrIdle ==
    /\ proc = "running" /\ pc = "sr_begin"
    /\ stream_container = 0
    /\ result' = "Ok"
    /\ pc' = "ack"
    /\ UNCHANGED <<sr_stream, proc, cur, from_state, failure, new_stream, new_writers,
                   nw_i, fin_s, fin_i, fin_ret, resVars, handler_set, hVars,
                   busVars>>
    /\ UNCHANGED <<regVars, fincount, cmutex, cbVars, pureVars, notifVars>>

\* take() is Some(stream) and stream.pause()? succeeds; the stream, a local
\* of the if-let, is dropped when stop_recording returns
SrPauseOk ==
    /\ proc = "running" /\ pc = "sr_begin"
    /\ stream_container # 0
    /\ sstate' = PauseStream(sstate, stream_container)
    /\ sr_stream' = stream_container
    /\ stream_container' = 0
    /\ pc' = "fin_take" /\ fin_ret' = "sr"
    /\ UNCHANGED <<proc, cur, from_state, result, failure, new_stream,
                   new_writers, nw_i, fin_s, fin_i, writers_container, wstate,
                   handler_set, hVars, busVars>>
    /\ UNCHANGED <<regVars, fincount, cmutex, cbVars, pureVars, notifVars>>

\* println!("Recording stopped."); return Ok(()): the local stream is dropped
SrReturn ==
    /\ proc = "running" /\ pc = "sr_return"
    /\ sstate' = DropStream(sstate, sr_stream)
    /\ sr_stream' = 0
    /\ result' = "Ok"
    /\ pc' = "ack"
    /\ UNCHANGED <<proc, cur, from_state, failure, new_stream, new_writers,
                   nw_i, fin_s, fin_i, fin_ret, stream_container,
                   writers_container, wstate, handler_set, hVars, busVars>>
    /\ UNCHANGED <<regVars, fincount, cmutex, cbVars, pureVars, notifVars>>

\* take() is Some(stream) and stream.pause()? fails: the stream is dropped
SrPauseErr ==
    /\ proc = "running" /\ pc = "sr_begin"
    /\ stream_container # 0
    /\ sstate' = DropStream(sstate, stream_container)
    /\ stream_container' = 0
    /\ result' = "Err" /\ failure' = "pause"
    /\ pc' = "ack"
    /\ UNCHANGED <<sr_stream, proc, cur, from_state, new_stream, new_writers, nw_i, fin_s,
                   fin_i, fin_ret, writers_container, wstate, handler_set,
                   hVars, busVars>>
    /\ UNCHANGED <<regVars, fincount, cmutex, cbVars, pureVars, notifVars>>

(* ---------------------------------------------------------------------- *)
(* The OS interrupt and the ctrl-c handler thread                          *)
(* ---------------------------------------------------------------------- *)
\* SIGINT while no handler is registered: the default disposition kills the
\* process at once
InterruptKill ==
    /\ proc = "running" /\ ~handler_set
    /\ proc' = "killed"
    /\ UNCHANGED <<ctlVars, resVars, handler_set, hVars, busVars>>
    /\ UNCHANGED <<regVars, fincount, cmutex, cbVars, pureVars, notifVars>>

\* SIGINT with the handler registered: the handler closure starts running
InterruptHandled ==
    /\ proc = "running" /\ handler_set /\ hpc = "idle"
    /\ hpc' = "take"
    /\ at_sigint' = IF /\ pc = "recv" /\ stream_container # 0
                       /\ sstate[stream_container] = "playing"
                    THEN writers_container ELSE 0
    /\ UNCHANGED <<proc, ctlVars, resVars, handler_set, hfin_s, hfin_i, busVars>>
    /\ UNCHANGED <<regVars, fincount, cmutex, cbVars, pureVars, notifVars>>

\* handler: let writers = writers.lock().unwrap().take();
HTake ==
    /\ proc = "running" /\ hpc = "take"
    /\ cmutex = "free"
    /\ cmutex' = "handler"
    /\ writers_container' = 0
    /\ hfin_s' = writers_container
    /\ hpc' = "unlock"
    /\ UNCHANGED <<proc, ctlVars, stream_container, sstate, wstate,
                   handler_set, hfin_i, at_sigint, busVars>>
    /\ UNCHANGED <<regVars, fincount, cbVars, pureVars, notifVars>>

\* handler: the guard of the container mutex is released
HUnlock ==
    /\ proc = "running" /\ hpc = "unlock"
    /\ cmutex' = "free"
    /\ IF hfin_s = 0
       THEN hpc' = "exit" /\ hfin_i' = 0
       ELSE hpc' = "loop" /\ hfin_i' = 1
    /\ UNCHANGED <<proc, ctlVars, resVars, handler_set, hfin_s, at_sigint, busVars>>
    /\ UNCHANGED <<regVars, fincount, cbVars, pureVars, notifVars>>

\* handler: one iteration of the finalize loop
HFinOneOk ==
    /\ proc = "running" /\ hpc = "loop"
    /\ IF wstate[hfin_s][hfin_i] = "open"
       THEN /\ wstate' = [wstate EXCEPT ![hfin_s][hfin_i] = "finalized"]
            /\ fincount' = [fincount EXCEPT ![hfin_s][hfin_i] = @ + 1]
       ELSE UNCHANGED <<wstate, fincount>>
    /\ IF hfin_i = NumChannels
       THEN hpc' = "exit" /\ hfin_i' = 0 /\ hfin_s' = 0
       ELSE hpc' = hpc /\ hfin_i' = hfin_i + 1 /\ hfin_s' = hfin_s
    /\ UNCHANGED <<proc, ctlVars, stream_container, sstate, writers_container,
                   handler_set, at_sigint, busVars>>
    /\ UNCHANGED <<regVars, cmutex, cbVars, pureVars, notifVars>>

\* handler: writer.finalize() returns Err: unwrap() panics the handler thread
\* (the process keeps running); unwinding drops the handles that were taken
HFinOnePanic ==
    /\ proc = "running" /\ hpc = "loop"
    /\ wstate[hfin_s][hfin_i] = "open"
    /\ wstate' = DropWriters([wstate EXCEPT ![hfin_s][hfin_i] = "broken"], hfin_s)
    /\ hpc' = "panicked" /\ hfin_i' = 0 /\ hfin_s' = 0
    /\ UNCHANGED <<proc, ctlVars, stream_container, sstate, writers_container,
                   handler_set, at_sigint, busVars>>
    /\ UNCHANGED <<regVars, fincount, cmutex, cbVars, pureVars, notifVars>>

\* handler: std::process::exit(0)
HExit ==
    /\ proc = "running" /\ hpc = "exit"
    /\ proc' = "exited"
    /\ hpc' = "done"
    /\ UNCHANGED <<ctlVars, resVars, handler_set, hfin_s, hfin_i, at_sigint, busVars>>
    /\ UNCHANGED <<regVars, fincount, cmutex, cbVars, pureVars, notifVars>>

(* ---------------------------------------------------------------------- *)
(* The capture callback (stream.rs process, wav.rs write_input_data)       *)
(* ---------------------------------------------------------------------- *)
\* The audio engine invokes the callback of a playing stream; the callback
\* de-interleaves the buffer.  An invocation that has begun runs to its end
\* also when the stream is paused meanwhile.
CbBegin ==
    /\ proc = "running" /\ cbpc = "idle"
    /\ ncb < MaxCallbacks
    /\ \E st \in Streams : sstate[st] = "playing"
    /\ cbpc' = "lock"
    /\ cb_wrote' = {}
    /\ ncb' = ncb + 1
    /\ UNCHANGED <<proc, ctlVars, resVars, handler_set, hVars, busVars, regVars,
                   fincount, cmutex, cb_s, cb_i, pureVars, notifVars>>

\* if let Some(writers) = writers_in_stream.lock().unwrap().as_ref(): a
\* blocking lock(); the guard lives to the end of the if-let
CbLock ==
    /\ proc = "running" /\ cbpc = "lock"
    /\ cmutex = "free"
    /\ IF writers_container = 0
       THEN /\ cbpc' = "idle"
            /\ UNCHANGED <<cmutex, cb_s, cb_i>>
       ELSE /\ cmutex' = "cb"
            /\ cb_s' = writers_container
            /\ cb_i' = 1
            /\ cbpc' = "write"
    /\ UNCHANGED <<proc, ctlVars, resVars, handler_set, hVars, busVars, regVars,
                   fincount, cb_wrote, ncb, pureVars, notifVars>>

\* the lock is taken and the container read again for every channel
CbWriteRelocks ==
    /\ proc = "running" /\ cbpc = "write"
    /\ cmutex \in {"free", "cb"}
    /\ cb_wrote' = IF writers_container # 0 /\ wstate[writers_container][cb_i] = "open"
                   THEN cb_wrote \cup {<<writers_container, cb_i>>}
                   ELSE cb_wrote
    /\ cmutex' = "free"
    /\ IF cb_i = NumChannels
       THEN cbpc' = "idle" /\ cb_s' = 0 /\ cb_i' = 0
       ELSE cbpc' = cbpc /\ cb_s' = cb_s /\ cb_i' = cb_i + 1
    /\ UNCHANGED <<proc, ctlVars, resVars, handler_set, hVars, busVars, regVars,
                   fincount, ncb, pureVars, notifVars>>

\* write_input_data(channel_data, &writers_in_stream[channel_idx]): try_lock
\* the handle and, if it holds a writer, write the samples (errors dropped by
\* .ok()).  The controller and the handler lock a handle only inside one
\* finalize step of a session they took out of the container, so try_lock
\* finds the handle free here.  After the last channel the container guard
\* is released.
CbWrite ==
    /\ proc = "running" /\ cbpc = "write"
    /\ cb_wrote' = IF wstate[cb_s][cb_i] = "open"
                   THEN cb_wrote \cup {<<cb_s, cb_i>>}
                   ELSE cb_wrote
    /\ IF cb_i = NumChannels
       THEN cmutex' = "free" /\ cbpc' = "idle" /\ cb_s' = 0 /\ cb_i' = 0
       ELSE cmutex' = cmutex /\ cbpc' = cbpc /\ cb_s' = cb_s /\ cb_i' = cb_i + 1
    /\ UNCHANGED <<proc, ctlVars, resVars, handler_set, hVars, busVars, regVars,
                   fincount, ncb, pureVars, notifVars>>

Callback == CbBegin \/ CbLock \/ CbWrite

(* ---------------------------------------------------------------------- *)
(* De-interleaving in the capture callback (stream.rs process 66-83)       *)
(* ---------------------------------------------------------------------- *)
RECURSIVE Ascending(_)
Ascending(S) ==
    IF S = {} THEN <<>>
    ELSE LET m == CHOOSE x \in S : \A y \in S : x <= y
         IN  <<m>> \o Ascending(S \ {m})

\* choose_channels_to_record with --exclude (1-based, all existing):
\* 0..n-1 in order with the excluded channels removed; no --exclude and no
\* --include is the case exclude = {}.
choose_channels_to_record(n, exclude) ==
    Ascending((0 .. n - 1) \ {i - 1 : i \in exclude})

\* data.chunks(k), k > 0
Chunks(data, k) ==
    [c \in 1 .. ((Len(data) + k - 1) \div k) |->
        SubSeq(data, (c - 1) * k + 1,
               IF c * k <= Len(data) THEN c * k ELSE Len(data))]

\* for frame in frames:
\*     for (channel_idx, sample) in frame.iter().enumerate():
\*         channel_buffer[channel_idx].push(*sample)
RECURSIVE PushFrames(_, _)
PushFrames(buf, frames) ==
    IF frames = <<>> THEN buf
    ELSE LET frame == Head(frames) IN
         PushFrames([j \in 1 .. Len(buf) |->
                        IF j <= Len(frame) THEN Append(buf[j], frame[j])
                        ELSE buf[j]],
                    Tail(frames))

\* One invocation of the callback closure up to the end of the frame loop.
\* chunks(0) panics ("chunk size must be non-zero").
ProcessCall ==
    /\ ~process_io.done
    /\ process_io.n > 0
    /\ LET k == Len(process_io.chans) IN
       process_io' =
          IF k = 0
          THEN [process_io EXCEPT !.done = TRUE, !.panic = TRUE]
          ELSE [process_io EXCEPT !.done = TRUE,
                                  !.out = PushFrames([j \in 1 .. k |-> <<>>],
                                                     Chunks(process_io.data, k))]
    /\ UNCHANGED <<proc, ctlVars, resVars, handler_set, hVars, busVars, regVars,
                   fincount, cmutex, cbVars, midi_io, call, notifVars>>

(* ---------------------------------------------------------------------- *)
(* MIDI input callback (midi.rs register_midi_input_hooks 198-257)         *)
(* ---------------------------------------------------------------------- *)
CHANNEL_MASK == 15
ANY_CHANNEL_INTERNAL == 255

\* message[0] >> 4 matched against 0x8 .. 0xE
get_message_type(message) ==
    LET t == message[1] \div 16 IN
    CASE t = 8 -> "NoteOff"
      [] t = 9 -> "NoteOn"
      [] t = 10 -> "PolyphonicAfterTouch"
      [] t = 11 -> "ControlChange"
      [] t = 12 -> "ProgramChange"
      [] t = 13 -> "AfterTouch"
      [] t = 14 -> "PitchBendChange"
      [] OTHER -> "Ignored"

\* message[0] & CHANNEL_MASK
get_channel(message) == message[1] % (CHANNEL_MASK + 1)

\* configs.iter().filter(..).collect() is modelled by the positions, in
\* order, of the triples the filter keeps.

\* the filter ignores the message's channel
ActiveConfigAnyChannel(cfg, channel, cc_number) ==
    Ascending({i \in DOMAIN cfg :
                 /\ cfg[i][1] # ANY_CHANNEL_INTERNAL
                 /\ (cc_number = cfg[i][2] \/ cc_number = cfg[i][3])})

\* active_config: chn == channel && (cc == start || cc == stop)
ActiveConfig(cfg, channel, cc_number) ==
    Ascending({i \in DOMAIN cfg :
                 /\ cfg[i][1] = channel
                 /\ (cc_number = cfg[i][2] \/ cc_number = cfg[i][3])})

\* any_channel_receive_configs
AnyChannelReceiveConfigs(cfg, cc_number) ==
    Ascending({i \in DOMAIN cfg :
                 /\ cfg[i][1] = ANY_CHANNEL_INTERNAL
                 /\ (cc_number = cfg[i][2] \/ cc_number = cfg[i][3])})

\* the value is not looked at
EmitAnyValue(cfg, i, cc_number, value) ==
    (IF cc_number = cfg[i][2]
        THEN <<[act |-> "Start", by |-> i]>> ELSE <<>>)
    \o (IF cc_number = cfg[i][3]
        THEN <<[act |-> "Stop", by |-> i]>> ELSE <<>>)

\* the two sends for one triple: Start if cc == start && value == 127, then
\* Stop if cc == stop && value == 127; "by" records the triple's position
Emit(cfg, i, cc_number, value) ==
    (IF cc_number = cfg[i][2] /\ value = 127
        THEN <<[act |-> "Start", by |-> i]>> ELSE <<>>)
    \o (IF cc_number = cfg[i][3] /\ value = 127
        THEN <<[act |-> "Stop", by |-> i]>> ELSE <<>>)

RECURSIVE EmitAll(_, _, _, _)
EmitAll(cfg, idx, cc_number, value) ==
    IF idx = <<>> THEN <<>>
    ELSE Emit(cfg, Head(idx), cc_number, value)
         \o EmitAll(cfg, Tail(idx), cc_number, value)

\* wildcard triples are looked at only when no exact triple matched
MidiInputCallbackExclusive(cfg, message) ==
    IF get_message_type(message) # "ControlChange" \/ Len(message) < 3
    THEN <<>>
    ELSE LET active == ActiveConfig(cfg, get_channel(message), message[2])
         IN  IF active # <<>>
             THEN Emit(cfg, active[1], message[2], message[3])
             ELSE EmitAll(cfg, AnyChannelReceiveConfigs(cfg, message[2]),
                          message[2], message[3])

\* The closure given to input.connect: what it sends, in order.  A Control
\* Change shorter than three bytes is printed as invalid.  Of the exact
\* matches only active_config[0] is looked at; every wildcard match is.
MidiInputCallback(cfg, message) ==
    IF get_message_type(message) # "ControlChange" \/ Len(message) < 3
    THEN <<>>
    ELSE LET channel == get_channel(message)
             cc_number == message[2]
             value == message[3]
             active_config == ActiveConfig(cfg, channel, cc_number)
         IN  (IF active_config # <<>>
                 THEN Emit(cfg, active_config[1], cc_number, value)
                 ELSE <<>>)
             \o EmitAll(cfg, AnyChannelReceiveConfigs(cfg, cc_number),
                        cc_number, value)

\* A message arrives on the bound port: the callback runs and its sends
\* are appended to the to-controller channel.
MidiReceive ==
    /\ proc = "running"
    /\ ~midi_io.done /\ midi_io.msg # <<>>
    /\ LET out == MidiInputCallback(midi_io.cfg, midi_io.msg)
           es == [k \in 1 .. Len(out) |->
                     [src |-> "midi", n |-> CountOf(sent, "midi") + k,
                      act |-> out[k].act]]
       IN /\ midi_io' = [midi_io EXCEPT !.done = TRUE, !.out = out]
          /\ to_controller' = to_controller \o es
          /\ sent' = sent \o es
    /\ UNCHANGED <<proc, ctlVars, resVars, handler_set, hVars,
                   from_controller, processed, outcomes, regVars, fincount,
                   cmutex, cbVars, process_io, call, notifVars>>

(* ---------------------------------------------------------------------- *)
(* MIDI mapping parser (midi/parse.rs); a text is a sequence of characters *)
(* ---------------------------------------------------------------------- *)
\* nom's multispace0 eats these; str::trim_end also eats the other Unicode
\* white space, of which the form feed stands here
Multispace == {" ", "\t", "\n", "\r"}
\* the decimal digit of a number below ten
DigitChar(n) ==
    CASE n = 0 -> "0" [] n = 1 -> "1" [] n = 2 -> "2" [] n = 3 -> "3"
      [] n = 4 -> "4" [] n = 5 -> "5" [] n = 6 -> "6" [] n = 7 -> "7"
      [] n = 8 -> "8" [] n = 9 -> "9"

\* IResult: Err(Error), or Ok((rest, value)).  A parser takes the result of
\* the parser before it and, when both succeed, puts its own value after the
\* values already there.
PErr == [ok |-> FALSE, rest |-> <<>>, val |-> <<>>]
POk(rest, val) == [ok |-> TRUE, rest |-> rest, val |-> val]

\* the text after its longest prefix of multispace characters
multispace0(in) ==
    LET n == CHOOSE k \in 0 .. Len(in) :
                /\ \A j \in 1 .. k : in[j] \in Multispace
                /\ k = Len(in) \/ in[k + 1] \notin Multispace
    IN  SubSeq(in, n + 1, Len(in))

\* preceded(multispace0, ..): the white space before the next parser
Ws(r) == IF r.ok THEN POk(multispace0(r.rest), r.val) ELSE PErr

\* the length of the longest prefix of ASCII digits
DigitPrefixLen(in) ==
    LET Digits == {DigitChar(n) : n \in 0 .. 9} IN
    CHOOSE k \in 0 .. Len(in) :
       /\ \A j \in 1 .. k : in[j] \in Digits
       /\ k = Len(in) \/ in[k + 1] \notin Digits

\* str::parse::<u8> of a run of digits: -1 stands for the overflow error
RECURSIVE str_parse_u8(_, _)
str_parse_u8(ds, acc) ==
    IF ds = <<>> THEN acc
    ELSE LET v == acc * 10 + (CHOOSE n \in 0 .. 9 : DigitChar(n) = Head(ds)) IN
         IF v > 255 THEN -1 ELSE str_parse_u8(Tail(ds), v)

\* map_res(preceded(multispace0, digit1), str::parse::<u8>); digit1 wants
\* one or more digits
parse_u8(r) ==
    LET i == multispace0(r.rest)
        n == DigitPrefixLen(i)
        v == str_parse_u8(SubSeq(i, 1, n), 0)
    IN  IF r.ok /\ n > 0 /\ v # -1
        THEN POk(SubSeq(i, n + 1, Len(i)), Append(r.val, v))
        ELSE PErr

\* alt((num_parser, star_parser)), star_parser = map(char('*'), |_| 255)
parse_u8_or_star(r) ==
    LET n == parse_u8(r) IN
    IF n.ok THEN n
    ELSE IF r.ok /\ r.rest # <<>> /\ Head(r.rest) = "*"
         THEN POk(Tail(r.rest), Append(r.val, 255))
         ELSE PErr

\* preceded(multispace0, char(c)); the character is not kept
WsChar(c, r) ==
    LET i == multispace0(r.rest) IN
    IF r.ok /\ i # <<>> /\ Head(i) = c THEN POk(Tail(i), r.val) ELSE PErr

\* a parser's value t put after the values of r
Push(r, t) == IF r.ok /\ t.ok THEN POk(t.rest, Append(r.val, t.val)) ELSE PErr

\* delimited("(", tuple((channel, delimited(",", start, ","), stop)), ")")
parse_channel_and_ccs(r) ==
    Push(r, WsChar(")",
              parse_u8(Ws(
                WsChar(",", parse_u8(WsChar(",", Ws(
                  parse_u8_or_star(Ws(
                    WsChar("(", POk(r.rest, <<>>))))))))))))

\* separated_list0(preceded(multispace0, char(',')), parse_channel_and_ccs):
\* r is the list so far and el the attempt at its next element; an element
\* or a separator that fails ends the list before the separator
RECURSIVE TriplesMore(_, _)
TriplesMore(el, r) ==
    IF el.ok THEN TriplesMore(parse_channel_and_ccs(WsChar(",", el)), el) ELSE r

\* delimited("[", separated_list0(..), "]")
parse_list(r) ==
    LET open == WsChar("[", POk(r.rest, <<>>)) IN
    Push(r, WsChar("]", TriplesMore(parse_channel_and_ccs(open), open)))

\* the length of the text before its first "[", or of all of it
UntilBracketLen(in) ==
    CHOOSE k \in 0 .. Len(in) :
       /\ \A j \in 1 .. k : in[j] # "["
       /\ k = Len(in) \/ in[k + 1] = "["

\* str::trim_end: the text without its longest suffix of white space
trim_end(name) ==
    LET White == Multispace \cup {"\f"}
        n == CHOOSE k \in 0 .. Len(name) :
                /\ \A j \in k + 1 .. Len(name) : name[j] \in White
                /\ k = 0 \/ name[k] \notin White
    IN  SubSeq(name, 1, n)

\* take_until("["): fails when the text holds no "["; the text taken is
\* kept, with its end trimmed, or dropped
take_until_bracket(keep, r) ==
    LET n == UntilBracketLen(r.rest) IN
    IF ~r.ok \/ n = Len(r.rest) THEN PErr
    ELSE POk(SubSeq(r.rest, n + 1, Len(r.rest)),
             IF keep THEN Append(r.val, trim_end(SubSeq(r.rest, 1, n)))
             ELSE r.val)

\* multispace0, take_until("["), name.trim_end()
parse_port_name(r) == take_until_bracket(TRUE, Ws(r))

\* multispace0, parse_port_name, take_until("["), parse_list, each with ?
parse_port(r) ==
    Push(r, parse_list(take_until_bracket(FALSE,
                          parse_port_name(Ws(POk(r.rest, <<>>))))))

\* separated_list0(preceded(multispace0, char(',')), parse_port)
RECURSIVE PortsMore(_, _)
PortsMore(el, r) ==
    IF el.ok THEN PortsMore(parse_port(WsChar(",", el)), el) ELSE r

parse_midi_config_raw(in) ==
    LET open == WsChar("[", POk(in, <<>>)) IN
    WsChar("]", PortsMore(parse_port(open), open))

\* map.insert(name, channel_configs) for every port in turn: of the ports
\* with one name the last stays.  What is left of the text after the
\* closing bracket ("rest") is dropped.
InsertAll(raw) ==
    LET ports == raw.val IN
    IF ~raw.ok THEN [ok |-> FALSE, ports |-> <<>>, map |-> <<>>, rest |-> <<>>]
    ELSE [ok |-> TRUE, ports |-> ports, rest |-> raw.rest,
          map |-> [n \in {ports[i][1] : i \in DOMAIN ports} |->
                     LET last == CHOOSE i \in DOMAIN ports :
                                    /\ ports[i][1] = n
                                    /\ \A j \in DOMAIN ports : ports[j][1] = n => j <= i
                     IN  ports[last][2]]]

parse_midi_config(in) == InsertAll(parse_midi_config_raw(in))

\* clap hands the --midi text to parse_midi_config once, at start-up
ParseCall ==
    /\ call.fn = "parse_midi_config" /\ ~call.done
    /\ call' = [call EXCEPT !.done = TRUE,
                            !.ret = parse_midi_config(call.arg.text)]
    /\ UNCHANGED <<proc, ctlVars, resVars, handler_set, hVars, busVars, regVars,
                   fincount, cmutex, cbVars, midi_io, process_io, notifVars>>

(* ---------------------------------------------------------------------- *)
(* MIDI input set-up (midi.rs find_input_ports, input_ports_from_configs,  *)
(* register_midi_input_hooks, listen)                                      *)
(* ---------------------------------------------------------------------- *)
\* glob_match::glob_match for patterns of literal characters and "*"
RECURSIVE glob_match(_, _)
glob_match(pattern, name) ==
    IF pattern = <<>> THEN name = <<>>
    ELSE IF Head(pattern) = "*"
         THEN \/ glob_match(Tail(pattern), name)
              \/ name # <<>> /\ glob_match(pattern, Tail(name))
         ELSE /\ name # <<>> /\ Head(name) = Head(pattern)
              /\ glob_match(Tail(pattern), Tail(name))

\* find_input_ports: the hardware ports, in order, whose name the pattern
\* matches; Err when there is none
find_input_ports(pattern, ports) ==
    LET found == Ascending({h \in DOMAIN ports : glob_match(pattern, ports[h])})
    IN  [ok |-> found # <<>>, found |-> found]

\* input_ports_from_configs: filter_map over the mapping's entries with
\* find_input_ports(..).ok()?, flattened: a pattern whose find_input_ports
\* is Err contributes nothing
RECURSIVE input_ports_from_configs(_, _)
input_ports_from_configs(order, ports) ==
    IF order = <<>> THEN <<>>
    ELSE LET r == find_input_ports(Head(order), ports)
             here == IF r.ok
                     THEN [k \in DOMAIN r.found |->
                              [name |-> ports[r.found[k]], port |-> r.found[k],
                               configs |-> Head(order)]]
                     ELSE <<>>
         IN  here \o input_ports_from_configs(Tail(order), ports)

\* register_midi_input_hooks: input_connections.insert(port_name, connection)
\* for each entry in turn; an insert under a name already there drops the
\* connection that was there, which closes it
RECURSIVE register_midi_input_hooks(_, _)
register_midi_input_hooks(entries, connections) ==
    IF entries = <<>> THEN connections
    ELSE LET e == Head(entries)
             kept == {c \in connections : c.name # e.name}
         IN  register_midi_input_hooks(Tail(entries), kept \cup {e})

\* Midi::listen, input half.  The mapping is a HashMap: its entries come in
\* any order.  Every item input_ports_from_configs collects is Ok, so its ?
\* and the one of listen never return Err.  The live connections are what
\* input_connections holds.
MidiListen ==
    /\ call.fn = "listen" /\ ~call.done
    /\ \E order \in [1 .. Cardinality(call.arg.input_config) -> call.arg.input_config] :
          /\ \A i, j \in DOMAIN order : i # j => order[i] # order[j]
          /\ LET entries == input_ports_from_configs(order, call.arg.ports) IN
             call' = [call EXCEPT
                        !.done = TRUE,
                        !.ret = [ok |-> TRUE,
                                 input_connections |->
                                    register_midi_input_hooks(entries, {})]]
    /\ UNCHANGED <<proc, ctlVars, resVars, handler_set, hVars, busVars, regVars,
                   fincount, cmutex, cbVars, midi_io, process_io, notifVars>>

(* ---------------------------------------------------------------------- *)
(* OSC input (osc.rs handle_packet, handle_message)                        *)
(* ---------------------------------------------------------------------- *)
\* OscPacket::Message(OscMessage { addr, .. }) and OscPacket::Bundle(bundle)
OscMessage(addr) == [bundle |-> FALSE, addr |-> addr, content |-> <<>>]
OscBundle(content) == [bundle |-> TRUE, addr |-> "", content |-> content]

\* match message.addr.as_str(): what is sent
handle_message(message) ==
    CASE message.addr = "/smrec/start" -> <<"Start">>
      [] message.addr = "/smrec/stop" -> <<"Stop">>
      [] OTHER -> <<>>

\* bundles inside a bundle are not looked into
RECURSIVE handle_packet_OneLevel(_)
handle_packet_OneLevel(packet) ==
    IF ~packet.bundle THEN handle_message(packet)
    ELSE LET c == packet.content IN
         IF c = <<>> THEN <<>>
         ELSE (IF Head(c).bundle THEN <<>> ELSE handle_message(Head(c)))
              \o handle_packet_OneLevel(OscBundle(Tail(c)))

\* handle_packet: a message is handled; the packets of a bundle are handled
\* one after the other, bundles among them in the same way
RECURSIVE handle_packet(_)
handle_packet(packet) ==
    IF ~packet.bundle THEN handle_message(packet)
    ELSE LET c == packet.content IN
         IF c = <<>> THEN <<>>
         ELSE handle_packet(Head(c)) \o handle_packet(OscBundle(Tail(c)))

\* The UDP thread decoded a packet: handle_packet sends its actions on the
\* to-controller channel.
OscReceive ==
    /\ proc = "running"
    /\ call.fn = "handle_packet" /\ ~call.done
    /\ LET out == handle_packet(call.arg)
           es == [k \in 1 .. Len(out) |->
                     [src |-> "osc", n |-> CountOf(sent, "osc") + k,
                      act |-> out[k]]]
       IN /\ call' = [call EXCEPT !.done = TRUE, !.ret = out]
          /\ to_controller' = to_controller \o es
          /\ sent' = sent \o es
    /\ UNCHANGED <<proc, ctlVars, resVars, handler_set, hVars,
                   from_controller, processed, outcomes, regVars, fincount,
                   cmutex, cbVars, midi_io, process_io, notifVars>>

(* ---------------------------------------------------------------------- *)
(* Notifier threads: osc.rs Osc::listen messaging thread, midi.rs          *)
(* spin_midi_output_thread_if_necessary                                    *)
(* ---------------------------------------------------------------------- *)
\* the OscMessage the messaging thread encodes for an action
OscOf(action) ==
    CASE action = "Start" -> [addr |-> "/smrec/start", nargs |-> 0]
      [] action = "Stop" -> [addr |-> "/smrec/stop", nargs |-> 0]
      [] action = "Err" -> [addr |-> "/smrec/error", nargs |-> 1]

\* receiver_channel.recv() of the OSC messaging thread and socket.send(..).
\* Both notifier threads hold a clone of the one crossbeam receiver: a
\* message goes to the thread whose recv() takes it.
OscNotify ==
    /\ proc = "running"
    /\ "osc" \in notif_cfg
    /\ notif_next < Len(from_controller)
    /\ notif_next' = notif_next + 1
    /\ osc_sent' = Append(osc_sent, OscOf(from_controller[notif_next + 1]))
    /\ UNCHANGED <<proc, ctlVars, resVars, handler_set, hVars, busVars, regVars,
                   fincount, cmutex, cbVars, pureVars, notif_cfg, midi_rx>>

\* receiver_channel.recv() of the MIDI output thread
MidiOutNotify ==
    /\ proc = "running"
    /\ "midi_out" \in notif_cfg
    /\ notif_next < Len(from_controller)
    /\ notif_next' = notif_next + 1
    /\ midi_rx' = Append(midi_rx, from_controller[notif_next + 1])
    /\ UNCHANGED <<proc, ctlVars, resVars, handler_set, hVars, busVars, regVars,
                   fincount, cmutex, cbVars, pureVars, notif_cfg, osc_sent>>

\* make_cc_message: [0xB0 + channel, cc_num, value], an addition of two u8.
\* In a build with overflow checks a sum above 255 panics ("attempt to add
\* with overflow"), written here as the empty message; in a build without
\* them the sum wraps.
make_cc_message(checks, channel, cc_num, value) ==
    IF checks /\ 176 + channel > 255 THEN <<>>
    ELSE <<(176 + channel) % 256, cc_num, value>>

\* the sends of the MIDI output thread for the i-th triple of a connection:
\* with channel 255 one message per chn of "for chn in 0..15", a range that
\* ends before 15; else one message
RECURSIVE SendOnChannels(_, _, _, _, _)
SendOnChannels(checks, chn, last, cc_num, i) ==
    IF chn > last THEN <<>>
    ELSE <<[by |-> i, msg |-> make_cc_message(checks, chn, cc_num, 127)]>>
         \o SendOnChannels(checks, chn + 1, last, cc_num, i)

\* a panic in make_cc_message ends the output thread: nothing is sent for
\* the triples after it
RECURSIVE MidiOutputSends(_, _, _, _)
MidiOutputSends(checks, action, configs, i) ==
    IF i > Len(configs) THEN <<>>
    ELSE LET cc_num == IF action = "Start" THEN configs[i][2] ELSE configs[i][3] IN
         IF configs[i][1] = ANY_CHANNEL_INTERNAL
         THEN SendOnChannels(checks, 0, 14, cc_num, i)
              \o MidiOutputSends(checks, action, configs, i + 1)
         ELSE IF make_cc_message(checks, configs[i][1], cc_num, 127) = <<>>
         THEN <<[by |-> i, msg |-> <<>>]>>
         ELSE <<[by |-> i, msg |-> make_cc_message(checks, configs[i][1], cc_num, 127)]>>
              \o MidiOutputSends(checks, action, configs, i + 1)

\* The MIDI output thread received an action: what it sends on one output
\* connection.  Nothing is sent for Action::Err.
MidiOutputCall ==
    /\ call.fn = "midi_output" /\ ~call.done
    /\ call' = [call EXCEPT
                  !.done = TRUE,
                  !.ret = IF call.arg.action = "Err" THEN <<>>
                          ELSE MidiOutputSends(call.arg.checks, call.arg.action,
                                               call.arg.configs, 1)]
    /\ UNCHANGED <<proc, ctlVars, resVars, handler_set, hVars, busVars, regVars,
                   fincount, cmutex, cbVars, midi_io, process_io, notifVars>>

(* ---------------------------------------------------------------------- *)
(* choose_channels_to_record with both command-line lists (config.rs)      *)
(* ---------------------------------------------------------------------- *)
\* Option<Vec<usize>>
None == [some |-> FALSE, val |-> <<>>]
Some(v) == [some |-> TRUE, val |-> v]

\* for channel in exclude: remove it from channels, or bail if it is not there
RECURSIVE RemoveExcluded(_, _)
RemoveExcluded(channels, exclude) ==
    IF exclude = <<>> THEN [ok |-> TRUE, panic |-> FALSE, val |-> channels]
    ELSE IF \E k \in DOMAIN channels : channels[k] = Head(exclude)
         THEN RemoveExcluded(SelectSeq(channels, LAMBDA c : c # Head(exclude)),
                             Tail(exclude))
         ELSE [ok |-> FALSE, panic |-> FALSE, val |-> <<>>]

\* The match on (include, exclude).  With overflow checks on (a debug build)
\* i - 1 panics for i = 0; with checks off it wraps to usize::MAX, for which
\* 2147483647 stands, a number above every channel number of a run.
ChooseChannels(include, exclude, n, checks) ==
    LET all == [k \in 1 .. n |-> k - 1]
        Zero(l) == \E k \in DOMAIN l : l[k] = 0
        Minus1(l) == [k \in DOMAIN l |-> IF l[k] > 0 THEN l[k] - 1 ELSE 2147483647]
        Panic == [ok |-> FALSE, panic |-> TRUE, val |-> <<>>]
        Bail == [ok |-> FALSE, panic |-> FALSE, val |-> <<>>]
    IN  CASE include.some /\ ~exclude.some ->
                IF checks /\ Zero(include.val) THEN Panic
                ELSE [ok |-> TRUE, panic |-> FALSE, val |-> Minus1(include.val)]
          [] ~include.some /\ exclude.some ->
                IF checks /\ Zero(exclude.val) THEN Panic
                ELSE RemoveExcluded(all, Minus1(exclude.val))
          [] include.some /\ exclude.some -> Bail
          [] OTHER -> [ok |-> TRUE, panic |-> FALSE, val |-> all]

ChooseCall ==
    /\ call.fn = "choose_channels_to_record" /\ ~call.done
    /\ call' = [call EXCEPT
                  !.done = TRUE,
                  !.ret = ChooseChannels(call.arg.include, call.arg.exclude,
                                         call.arg.n, call.arg.checks)]
    /\ UNCHANGED <<proc, ctlVars, resVars, handler_set, hVars, busVars, regVars,
                   fincount, cmutex, cbVars, midi_io, process_io, notifVars>>

(* ---------------------------------------------------------------------- *)
(* SmrecConfig::new and SmrecConfig::writers with directory and file names *)
(* ---------------------------------------------------------------------- *)
\* SmrecConfig::new: the names of the configuration file, if there is one,
\* and format!("chn_{}.wav", channel + 1) for every recorded channel that
\* has none
SmrecConfigNew(file, chans) ==
    LET recorded == {chans[k] + 1 : k \in DOMAIN chans} IN
    [k \in DOMAIN file \cup recorded |->
        IF k \in DOMAIN file THEN file[k] ELSE "chn_" \o DigitChar(k) \o ".wav"]

\* base.exists() is not asked
BaseMissingNever(arg) == FALSE

\* !base.exists()
BaseMissing(arg) == ~arg.base_exists

\* the loop over channels_to_record: one WavWriter::create per channel, in
\* order; "files" are the paths created, "writers" the handles pushed
RECURSIVE MakeWriters(_, _, _, _)
MakeWriters(names, chans, dir, acc) ==
    IF chans = <<>> THEN acc
    ELSE MakeWriters(names, Tail(chans), dir,
                     Append(acc, [path |-> dir \o "/" \o names[Head(chans) + 1],
                                  state |-> "open"]))

\* SmrecConfig::writers.  dirname_date is
\* format!("{:04}{:02}{:02}_{:02}{:02}{:02}", ..) of Utc::now(), for the
\* seconds 0..59 of one minute.  The file system answers: "ok", "mkdir_err"
\* (create_dir_all returns Err, passed on by ?) or "create_err"
\* (WavWriter::create returns Err for the first file: expect panics).
Writers(arg) ==
    LET names == SmrecConfigNew(arg.file, arg.chans)
        dirname_date ==
            "20240101_0000" \o DigitChar(arg.now \div 10) \o DigitChar(arg.now % 10)
        dir == arg.base \o "/rec_" \o dirname_date
        Result(ok, panic, d, w) ==
            [ok |-> ok, panic |-> panic, dir |-> d, writers |-> w]
    IN  IF BaseMissing(arg) THEN Result(FALSE, FALSE, "", <<>>)
        ELSE IF arg.fs = "mkdir_err" THEN Result(FALSE, FALSE, "", <<>>)
        ELSE IF arg.fs = "create_err" /\ arg.chans # <<>>
             THEN Result(FALSE, TRUE, dir, <<>>)
        ELSE Result(TRUE, FALSE, dir, MakeWriters(names, arg.chans, dir, <<>>))

WritersCall ==
    /\ call.fn = "writers" /\ ~call.done
    /\ call' = [call EXCEPT !.done = TRUE, !.ret = Writers(call.arg)]
    /\ UNCHANGED <<proc, ctlVars, resVars, handler_set, hVars, busVars, regVars,
                   fincount, cmutex, cbVars, midi_io, process_io, notifVars>>

(* ---------------------------------------------------------------------- *)
(* Successive start()s of one process and the wall clock                   *)
(* ---------------------------------------------------------------------- *)
\* Utc::now() of writers(): the wall clock moves on by a second
ClockTick ==
    /\ call.fn = "sessions"
    /\ call.ret.now < FirstSecond + MaxTicks
    /\ call' = [call EXCEPT !.ret.now = @ + 1]
    /\ UNCHANGED <<proc, ctlVars, resVars, handler_set, hVars, busVars, regVars,
                   fincount, cmutex, cbVars, midi_io, process_io, notifVars>>

\* new_recording up to the replace of the container: the writers of the
\* session before, if any, are finalized and writers() makes the new ones
\* at the present clock.  create_dir_all is called, and may fail, only when
\* the directory does not exist; WavWriter::create creates or truncates the
\* file.  A session is the directory and the paths writers() returned.
StartSession ==
    /\ call.fn = "sessions"
    /\ call.ret.starts < MaxStarts
    /\ \E fs \in {"ok", "mkdir_err"} :
          LET arg == [chans |-> call.arg.chans, file |-> call.arg.file,
                      base |-> call.arg.base, base_exists |-> TRUE,
                      fs |-> fs, now |-> call.ret.now]
              w == Writers(arg)
              existing == {call.ret.sessions[i].dir : i \in DOMAIN call.ret.sessions}
          IN  /\ fs = "mkdir_err" => Writers([arg EXCEPT !.fs = "ok"]).dir \notin existing
              /\ call' = [call EXCEPT
                     !.ret = [now |-> call.ret.now,
                              starts |-> call.ret.starts + 1,
                              sessions |->
                                 IF w.ok
                                 THEN Append(call.ret.sessions,
                                             [dir |-> w.dir,
                                              paths |-> {w.writers[k].path :
                                                           k \in DOMAIN w.writers}])
                                 ELSE call.ret.sessions]]
    /\ UNCHANGED <<proc, ctlVars, resVars, handler_set, hVars, busVars, regVars,
                   fincount, cmutex, cbVars, midi_io, process_io, notifVars>>

(* ---------------------------------------------------------------------- *)
(* main after the listeners are created (main.rs 210-246)                  *)
(* ---------------------------------------------------------------------- *)
\* match (midi, osc): with a listener main enters
\* listen_and_block_main_thread, whose loop has no exit; with none it calls
\* new_recording itself.  Until this step is taken (call.done) main has not
\* passed the match; the listeners exist already and may send.
MainBegin ==
    /\ proc = "running" /\ pc = "recv"
    /\ call.fn = "main" /\ ~call.done
    /\ call' = [call EXCEPT !.done = TRUE]
    /\ IF call.arg.listeners
       THEN /\ pc' = "recv"
            /\ UNCHANGED <<cur, from_state, result, failure>>
       ELSE /\ pc' = "nr_begin"
            /\ cur' = [src |-> "main", n |-> 1, act |-> "Start"]
            /\ from_state' = "Idle"
            /\ result' = "none" /\ failure' = "none"
    /\ UNCHANGED <<sr_stream, proc, new_stream, new_writers, nw_i, fin_s, fin_i, fin_ret,
                   resVars, handler_set, hVars, busVars>>
    /\ UNCHANGED <<regVars, fincount, cmutex, cbVars, midi_io, process_io, notifVars>>

\* new_recording(..)? and stop_recording(..)? of main: an Err ends main, Ok
\* of new_recording goes on to park, Ok of stop_recording ends main
MainReturn ==
    /\ proc = "running" /\ pc = "ack" /\ cur.src = "main"
    /\ IF result = "Ok" /\ cur.act = "Start"
       THEN pc' = "main_park" /\ proc' = proc
       ELSE pc' = "main_done" /\ proc' = "exited"
    /\ UNCHANGED <<sr_stream, cur, from_state, result, failure, new_stream,
                   new_writers, nw_i, fin_s, fin_i, fin_ret, resVars,
                   handler_set, hVars, busVars>>
    /\ UNCHANGED <<regVars, fincount, cmutex, cbVars, pureVars, notifVars>>

\* std::thread::park_timeout(secs) or std::thread::park() returns, the
\* latter only spuriously, and main calls stop_recording
MainWake ==
    /\ proc = "running" /\ pc = "main_park"
    /\ pc' = "sr_begin"
    /\ cur' = [src |-> "main", n |-> 2, act |-> "Stop"]
    /\ from_state' = IF stream_container = 0 THEN "Idle" ELSE "Recording"
    /\ result' = "none" /\ failure' = "none"
    /\ UNCHANGED <<sr_stream, proc, new_stream, new_writers, nw_i, fin_s, fin_i, fin_ret,
                   resVars, handler_set, hVars, busVars>>
    /\ UNCHANGED <<regVars, fincount, cmutex, cbVars, pureVars, notifVars>>

(* ---------------------------------------------------------------------- *)
(* Specifications                                                          *)
(* ---------------------------------------------------------------------- *)
Controller ==
    \/ RecvStart \/ RecvStop \/ Ack
    \/ FinTake \/ FinUnlock \/ FinOneOk \/ FinOnePanic
    \/ NrBeginIdle \/ NrPauseOk \/ NrPauseErr
    \/ NrBaseOk \/ NrBaseErr \/ NrCreateOk \/ NrCreatePanic
    \/ NrReplace \/ NrReplaceUnlock \/ NrSetHandler
    \/ NrBuildOk \/ NrBuildErr \/ NrPlayOk \/ NrPlayErr \/ NrStore
    \/ SrIdle \/ SrPauseOk \/ SrPauseErr \/ SrReturn

Handler ==
    \/ InterruptKill \/ InterruptHandled
    \/ HTake \/ HUnlock \/ HFinOneOk \/ HFinOnePanic \/ HExit

\* The program: the sources of midi.rs and osc.rs send Start and Stop only.
Next ==
    \/ Controller
    \/ Handler
    \/ \E s \in Sources, a \in SourceActions : Send(s, a)

Spec == Init /\ [][Next]_vars

\* listen_and_block_main_thread over every Action its channel can carry.
NextBus ==
    \/ Controller
    \/ RecvErr
    \/ Handler
    \/ \E s \in Sources, a \in Actions : Send(s, a)

SpecBus == Init /\ [][NextBus]_vars

\* The program with the audio engine's callback thread.
NextCb ==
    \/ Controller
    \/ Handler
    \/ Callback
    \/ \E s \in Sources, a \in SourceActions : Len(sent) < MaxCbActions /\ Send(s, a)

SpecCb == Init /\ [][NextCb]_vars

\* The callback's de-interleaving over every device channel count, every
\* recorded channel selection and every buffer length.  The device delivers
\* n channels interleaved; the sample at a position is named
\* <<frame, device channel>>.
InitProc ==
    /\ InitCore
    /\ midi_io = MidiIdle
    /\ call = CallIdle
    /\ \E n \in 1 .. MaxDevChannels :
       \E exclude \in SUBSET (1 .. n) :
       \E len \in 0 .. n * MaxFrames :
          process_io = [n |-> n,
                        chans |-> choose_channels_to_record(n, exclude),
                        data |-> [i \in 1 .. len |->
                                    <<(i - 1) \div n, (i - 1) % n>>],
                        done |-> FALSE, panic |-> FALSE, out |-> <<>>]

SpecProc == InitProc /\ [][ProcessCall]_vars

\* One bound MIDI port with its triples, and one message arriving on it.
Configs ==
    UNION {[1 .. l -> CfgChannels \X CcNumbers \X CcNumbers] : l \in 0 .. MaxTriples}

InitMidi ==
    /\ InitCore
    /\ process_io = ProcessIdle
    /\ call = CallIdle
    /\ LET Statuses == {t * 16 + c : t \in MsgTypes, c \in MsgChannels}
           Messages ==
               {<<st>> : st \in Statuses}
               \cup {<<st, cc>> : st \in Statuses, cc \in CcNumbers}
               \cup {<<st, cc, v>> : st \in Statuses, cc \in CcNumbers, v \in CcValues}
       IN  \E cfg \in Configs, msg \in Messages :
              midi_io = [cfg |-> cfg, msg |-> msg, done |-> FALSE, out |-> <<>>]

SpecMidi == InitMidi /\ [][MidiReceive]_vars

\* Mapping texts given to the parser.  A text is written from a shape (the
\* number of triples of each port), the white space put around every
\* bracket, parenthesis, comma and number, the characters put before and
\* after the first port's name, the channel and start-CC texts of the first
\* triple, and what follows the closing bracket.
Tok(pad, c) == pad \o <<c>> \o pad

\* the j-th triple of the i-th port is (i, j, 3), but for the first triple
\* of the first port, which is (chan, cc, 8)
TripleText(g, i, j) ==
    LET chan == IF i = 1 /\ j = 1 THEN g.chan ELSE <<DigitChar(i)>>
        start == IF i = 1 /\ j = 1 THEN g.cc ELSE <<DigitChar(j)>>
        stop == IF i = 1 /\ j = 1 THEN <<"8">> ELSE <<"3">>
    IN  Tok(g.pad, "(") \o g.pad \o chan \o g.pad \o Tok(g.pad, ",")
        \o g.pad \o start \o g.pad \o Tok(g.pad, ",")
        \o g.pad \o stop \o g.pad \o Tok(g.pad, ")")

RECURSIVE TriplesText(_, _, _)
TriplesText(g, i, j) ==
    IF j > g.shape[i] THEN <<>>
    ELSE (IF j > 1 THEN Tok(g.pad, ",") ELSE <<>>)
         \o TripleText(g, i, j) \o TriplesText(g, i, j + 1)

\* the first port is named "a b"; the others "q<i>", or "a b" again
NameText(g, i) ==
    IF i = 1 THEN g.lead \o <<"a", " ", "b">> \o g.trail
    ELSE IF g.dup THEN <<"a", " ", "b">> ELSE <<"q", DigitChar(i)>>

RECURSIVE PortsText(_, _)
PortsText(g, i) ==
    IF i > Len(g.shape) THEN <<>>
    ELSE (IF i > 1 THEN Tok(g.pad, ",") ELSE <<>>)
         \o g.pad \o NameText(g, i) \o g.pad
         \o Tok(g.pad, "[") \o TriplesText(g, i, 1) \o Tok(g.pad, "]")
         \o PortsText(g, i + 1)

Render(g) == Tok(g.pad, "[") \o PortsText(g, 1) \o Tok(g.pad, "]") \o g.tail

InitParse ==
    /\ InitCore
    /\ midi_io = MidiIdle
    /\ process_io = ProcessIdle
    /\ LET Pads == {<<>>, <<" ">>, <<"\n", "\t">>}
           NamePads == {<<>>, <<" ">>, <<"\f">>}
           ChanTexts == {<<"*">>, <<"1", "5">>, <<"2", "5", "5">>,
                         <<"2", "5", "6">>, <<"x">>}
           CcTexts == {<<"7">>, <<"2", "5", "6">>}
           Tails == {<<>>, <<"x">>}
           Shapes == UNION {[1 .. n -> 0 .. MaxListLen] : n \in 0 .. MaxPorts}
       IN  \E shape \in Shapes, pad \in Pads, lead \in NamePads, trail \in NamePads,
              chan \in ChanTexts, cc \in CcTexts, tail \in Tails, dup \in BOOLEAN :
              LET g == [shape |-> shape, pad |-> pad, lead |-> lead, trail |-> trail,
                        chan |-> chan, cc |-> cc, tail |-> tail, dup |-> dup]
              IN  call = [fn |-> "parse_midi_config",
                          arg |-> [gen |-> g, text |-> Render(g)],
                          done |-> FALSE, ret |-> <<>>]

SpecParse == InitParse /\ [][ParseCall]_vars

\* Midi::listen over input mappings of up to MaxPatterns port patterns and
\* up to MaxHwPorts hardware ports, two of which may have one name.
InitListen ==
    /\ InitCore
    /\ midi_io = MidiIdle
    /\ process_io = ProcessIdle
    /\ LET PortPatterns == {<<"*">>, <<"A">>, <<"B">>, <<"A", "*">>, <<"C">>}
           HwPortNames == {<<"A">>, <<"B">>, <<"A", "B">>}
       IN  \E cfg \in SUBSET PortPatterns :
           \E n \in 0 .. MaxHwPorts :
           \E ports \in [1 .. n -> HwPortNames] :
              /\ Cardinality(cfg) <= MaxPatterns
              /\ call = [fn |-> "listen",
                         arg |-> [input_config |-> cfg, ports |-> ports],
                         done |-> FALSE, ret |-> <<>>]

SpecListen == InitListen /\ [][MidiListen]_vars

\* One OSC packet of at most MaxOscNodes messages and bundles arrives.
RECURSIVE OscSize(_)
OscSize(packet) ==
    IF ~packet.bundle \/ packet.content = <<>> THEN 1
    ELSE OscSize(Head(packet.content)) + OscSize(OscBundle(Tail(packet.content)))

RECURSIVE OscPackets(_)
RECURSIVE OscContents(_)
\* the packets of at most n nodes
OscPackets(n) ==
    IF n <= 0 THEN {}
    ELSE {OscMessage(a) : a \in {"/smrec/start", "/smrec/stop", "/unknown"}}
         \cup {OscBundle(c) : c \in OscContents(n - 1)}
\* the sequences of packets of at most m nodes in all
OscContents(m) ==
    {<<>>} \cup
    UNION {{<<pk>> \o c : c \in OscContents(m - OscSize(pk))} : pk \in OscPackets(m)}

InitOsc ==
    /\ InitCore
    /\ midi_io = MidiIdle
    /\ process_io = ProcessIdle
    /\ \E pk \in OscPackets(MaxOscNodes) :
          call = [fn |-> "handle_packet", arg |-> pk, done |-> FALSE, ret |-> <<>>]

SpecOsc == InitOsc /\ [][OscReceive]_vars

\* The MIDI output thread with one output connection, for every mapping of
\* up to MaxTriples triples and every action it can receive, in a build with
\* and in one without overflow checks.  The channels are those of the input
\* mappings and two more a mapping text can give: 16 and 200.
InitMidiOut ==
    /\ InitCore
    /\ midi_io = MidiIdle
    /\ process_io = ProcessIdle
    /\ LET OutConfigs ==
               UNION {[1 .. l -> (CfgChannels \cup {16, 200}) \X CcNumbers \X CcNumbers] :
                         l \in 0 .. MaxTriples}
       IN  \E cfg \in OutConfigs, a \in Actions, checks \in BOOLEAN :
              call = [fn |-> "midi_output",
                      arg |-> [action |-> a, configs |-> cfg, checks |-> checks],
                      done |-> FALSE, ret |-> <<>>]

SpecMidiOut == InitMidiOut /\ [][MidiOutputCall]_vars

\* choose_channels_to_record for every device channel count and every
\* --include and --exclude list of up to MaxCliList numbers, in a build with
\* and in one without overflow checks.
CliOptions(n) ==
    {None} \cup {Some(l) : l \in UNION {[1 .. k -> 0 .. n + 1] : k \in 1 .. MaxCliList}}

InitChoose ==
    /\ InitCore
    /\ midi_io = MidiIdle
    /\ process_io = ProcessIdle
    /\ \E n \in 1 .. MaxDevChannels, checks \in BOOLEAN :
       \E include \in CliOptions(n), exclude \in CliOptions(n) :
          call = [fn |-> "choose_channels_to_record",
                  arg |-> [include |-> include, exclude |-> exclude, n |-> n,
                           checks |-> checks],
                  done |-> FALSE, ret |-> <<>>]

SpecChoose == InitChoose /\ [][ChooseCall]_vars

\* SmrecConfig::writers for every recorded channel list of up to MaxCliList
\* channels, every configuration file naming some of the channels 1 and 2,
\* an existing or a missing base path, and every answer of the file system.
InitWriters ==
    /\ InitCore
    /\ midi_io = MidiIdle
    /\ process_io = ProcessIdle
    /\ LET ConfigFiles ==
               UNION {[keys -> {"kick.wav", "snare.wav"}] : keys \in SUBSET {1, 2}}
           RecordedLists ==
               UNION {[1 .. l -> 0 .. MaxDevChannels - 1] : l \in 0 .. MaxCliList}
       IN  \E chans \in RecordedLists, file \in ConfigFiles, be \in BOOLEAN,
              fs \in {"ok", "mkdir_err", "create_err"}, now \in {7, 8} :
              call = [fn |-> "writers",
                      arg |-> [chans |-> chans, file |-> file, base |-> "out",
                               base_exists |-> be, fs |-> fs, now |-> now],
                      done |-> FALSE, ret |-> <<>>]

SpecWriters == InitWriters /\ [][WritersCall]_vars

\* Up to MaxStarts start()s of one process over MaxTicks seconds of the wall
\* clock, for every recorded channel list and configuration file as above;
\* the base path exists.
InitSessions ==
    /\ InitCore
    /\ midi_io = MidiIdle
    /\ process_io = ProcessIdle
    /\ LET ConfigFiles ==
               UNION {[keys -> {"kick.wav", "snare.wav"}] : keys \in SUBSET {1, 2}}
           RecordedLists ==
               UNION {[1 .. l -> 0 .. MaxDevChannels - 1] : l \in 0 .. MaxCliList}
       IN  \E chans \in RecordedLists, file \in ConfigFiles :
              call = [fn |-> "sessions",
                      arg |-> [chans |-> chans, file |-> file, base |-> "out"],
                      done |-> FALSE,
                      ret |-> [now |-> FirstSecond, starts |-> 0, sessions |-> <<>>]]

NextSessions == ClockTick \/ StartSession

SpecSessions == InitSessions /\ [][NextSessions]_vars

\* main from the match on the listeners on, with and without listeners and
\* with and without --duration.  The main thread and a running handler
\* thread eventually take their next step, and a park with a timeout
\* eventually returns; sources and the interrupt are free not to act.
InitMain ==
    /\ InitCore
    /\ midi_io = MidiIdle
    /\ process_io = ProcessIdle
    /\ \E listeners \in BOOLEAN, duration \in BOOLEAN :
          call = [fn |-> "main",
                  arg |-> [listeners |-> listeners, duration |-> duration],
                  done |-> FALSE, ret |-> <<>>]

NextMain ==
    \/ MainBegin \/ MainReturn \/ MainWake
    \/ Controller
    \/ Handler
    \/ \E s \in Sources, a \in SourceActions :
          call.arg.listeners /\ Len(sent) < MaxNotifActions /\ Send(s, a)

SpecMain ==
    /\ InitMain /\ [][NextMain]_vars
    /\ WF_vars(MainBegin \/ MainReturn \/ Controller)
    /\ WF_vars(call.arg.duration /\ MainWake)
    /\ WF_vars(HTake \/ HUnlock \/ HFinOneOk \/ HFinOnePanic \/ HExit)

\* The controller with the notifier threads of the configuration: OSC, a
\* MIDI output mapping, both or none.  Every thread that can take a step
\* eventually takes one.
InitNotify ==
    /\ InitBase
    /\ midi_io = MidiIdle
    /\ process_io = ProcessIdle
    /\ call = CallIdle
    /\ notif_cfg \in SUBSET {"osc", "midi_out"}

NextNotify ==
    \/ Controller
    \/ OscNotify
    \/ MidiOutNotify
    \/ \E s \in Sources, a \in SourceActions : Len(sent) < MaxNotifActions /\ Send(s, a)

SpecNotify ==
    /\ InitNotify /\ [][NextNotify]_vars
    /\ WF_vars(Controller) /\ WF_vars(OscNotify) /\ WF_vars(MidiOutNotify)

(* ---------------------------------------------------------------------- *)
(* Properties                                                              *)
(* ---------------------------------------------------------------------- *)
PlayingStreams == {s \in Streams : sstate[s] = "playing"}
OpenSessions == {s \in Sessions : \E c \in Channels : wstate[s][c] = "open"}
StartStops(seq) == SelectSeq(seq, LAMBDA e : e.act \in {"Start", "Stop"})
FromSource(seq, s) == SelectSeq(seq, LAMBDA e : e.src = s)

\* C1: at most one stream is playing at any time, and once a start() is past
\* its pause step no stream plays until the new stream is started.
C1_AtMostOnePlaying ==
    /\ Cardinality(PlayingStreams) <= 1
    /\ (pc \in {"nr_base", "nr_create", "nr_replace", "nr_unlock", "nr_handler",
                "nr_build", "nr_play"}
          \/ (pc \in {"fin_take", "fin_unlock", "fin_loop"} /\ fin_ret = "nr"))
          => PlayingStreams = {}
    /\ pc = "nr_store" => PlayingStreams = {new_stream}

\* a restart has paused the old stream (still in the container) and started
\* the new one
C1_Witness ==
    /\ pc = "nr_store"
    /\ stream_container # 0
    /\ sstate[stream_container] = "paused"
    /\ sstate[new_stream] = "playing"

\* C2: writers of two different sessions are never open at the same time:
\* every writer of an earlier session is closed before a writer of a later
\* session is created.
C2_NoTwoSessionsOpen == Cardinality(OpenSessions) <= 1

\* C3: when start() returns Err the manager is Idle: no stream handle is
\* held, no stream is playing and no writer is left open.
C3_FailedStartLeavesIdle ==
    (pc = "ack" /\ cur.act = "Start" /\ result = "Err") =>
        /\ stream_container = 0
        /\ PlayingStreams = {}
        /\ OpenSessions = {}

\* C4: a writer-creation or stream-build failure of a start handled by the
\* controller loop does not panic the controller and is returned as Err (then
\* acknowledged as an Err action).
C4_FailureReportedNoPanic ==
    failure \in {"create", "build"} =>
        /\ proc # "panicked"
        /\ pc = "ack" => result = "Err"

\* C5: a step of stop() taken while no stream is held returns Ok and leaves
\* the stream container, the writers container, every stream and every
\* writer as they were.
C5_StopIdleNoop ==
    [][(pc = "sr_begin" /\ stream_container = 0 /\ pc' # pc) =>
          /\ pc' = "ack" /\ result' = "Ok"
          /\ UNCHANGED <<stream_container, writers_container, sstate, wstate>>]_vars

\* stop() has returned from an Idle call
C5_Witness ==
    /\ pc = "ack" /\ cur.act = "Stop" /\ from_state = "Idle" /\ result = "Ok"
    /\ stream_container = 0

\* C6: when stop() called while Recording returns, it returns Ok, no stream is
\* held or playing, the writers container is empty and no writer is open.
C6_StopRecordingFinalizes ==
    (pc = "ack" /\ cur.act = "Stop" /\ from_state = "Recording") =>
        /\ result = "Ok"
        /\ stream_container = 0
        /\ PlayingStreams = {}
        /\ writers_container = 0
        /\ OpenSessions = {}

\* C7: whenever the controller is not inside a transition, from-controller
\* holds exactly one action per Start/Stop consumed, in consumption order:
\* the action itself when the transition returned Ok, Err otherwise.
C7_OneAckPerAction ==
    pc \in {"recv", "panicked"} =>
        LET h == StartStops(processed) IN
        /\ Len(from_controller) = Len(h)
        /\ Len(outcomes) = Len(h)
        /\ \A k \in 1 .. Len(h) :
              from_controller[k] = IF outcomes[k] = "Ok" THEN h[k].act ELSE "Err"

\* C8: the step that consumes an Err action changes neither container, no
\* stream, no writer and sends nothing on from-controller.
C8_ErrOnlyLogged ==
    [][(processed' # processed /\ processed'[Len(processed')].act = "Err") =>
          UNCHANGED <<stream_container, writers_container, sstate, wstate,
                      from_controller, pc>>]_vars

\* an Err was consumed while a stream was held
C8_Witness ==
    /\ stream_container # 0
    /\ \E i \in 1 .. Len(processed) : processed[i].act = "Err"

\* C9: the actions are consumed in the order they were enqueued, and the
\* actions of each source are consumed in the order the source emitted them.
C9_FifoOrder ==
    /\ sent = processed \o to_controller
    /\ \A s \in Sources :
          LET p == FromSource(processed, s)
          IN \A k \in 1 .. Len(p) : p[k].n = k

\* two sources interleaved on the channel, with actions waiting while the
\* controller was busy
C9_Witness ==
    /\ Len(processed) >= 2
    /\ Len(to_controller) >= 1
    /\ processed[1].src # processed[2].src
    /\ to_controller[1].src = processed[1].src

C11_HandlerRegisteredOnce ==
    [][/\ handler_by' = IF reg_attempts' = 0 THEN 0 ELSE 1
       /\ (reg_attempts' # reg_attempts /\ handler_by # 0) =>
             /\ handler_by' = handler_by
             /\ pc' = "nr_build" /\ result' = result /\ failure' = failure
             /\ proc' = "running"]_vars

\* a second start() registered again and returned Ok
C11_Witness ==
    /\ reg_attempts >= 2
    /\ handler_by = 1
    /\ pc = "ack" /\ cur.act = "Start" /\ result = "Ok"

\* C12: no writer is finalized more than once and only an open writer is
\* finalized; finalize_writers_if_some on an emptied container changes no
\* writer and returns Ok, in the controller and in the interrupt handler.
C12_FinalizeAtMostOnce ==
    [][/\ \A s \in Sessions, c \in Channels :
             /\ fincount'[s][c] <= 1
             /\ fincount'[s][c] # fincount[s][c] => wstate[s][c] = "open"
       /\ (pc = "fin_unlock" /\ fin_s = 0 /\ pc' # pc) =>
             /\ pc' \in {"nr_base", "sr_return"}
             /\ proc' = "running"
             /\ wstate' = wstate /\ fincount' = fincount
       /\ (hpc = "unlock" /\ hfin_s = 0 /\ hpc' # hpc) =>
             /\ hpc' = "exit"
             /\ wstate' = wstate /\ fincount' = fincount]_vars

\* the controller's finalize of stop() found the container emptied by the
\* interrupt handler, which is finalizing that session
C12_Witness ==
    /\ pc = "sr_return"
    /\ hpc = "loop" /\ hfin_s # 0
    /\ fincount[hfin_s][1] = 1

\* C13: the capture callback never waits for a lock: it is never at its
\* lock() of the writers container while the controller or the interrupt
\* handler holds that mutex.
C13_CallbackNeverBlocks ==
    ~(cbpc = "lock" /\ cmutex \in {"ctl", "handler"})

\* C16: the writes of one callback invocation go to the writers of one
\* session only; while it writes, that session is the one in the container
\* and none of its writers is finalized; a finished invocation has written
\* every channel of that session or nothing.
C16_OneSessionPerCallback ==
    /\ Cardinality({w[1] : w \in cb_wrote}) <= 1
    /\ cbpc = "write" =>
          /\ writers_container = cb_s
          /\ \A c \in Channels : wstate[cb_s][c] = "open"
          /\ cb_wrote = {cb_s} \X (1 .. cb_i - 1)
    /\ cbpc = "idle" =>
          \/ cb_wrote = {}
          \/ \E s \in Sessions : cb_wrote = {s} \X Channels

\* a restart waits to take the old session's writers while a callback
\* invocation is writing them
C16_Witness ==
    /\ pc = "fin_take" /\ fin_ret = "nr" /\ from_state = "Recording"
    /\ cbpc = "write" /\ cb_wrote # {}
    /\ cb_s = writers_container

\* C14: the capture callback never panics.
C14_CallbackNeverPanics ==
    ~process_io.panic

\* C15: for a buffer of whole frames over n device channels and a non-empty
\* recorded channel set, the k-th per-channel buffer holds, in frame order,
\* the samples of device channel chans[k] of every frame.
C15_BuffersHoldSelectedChannels ==
    (/\ process_io.done /\ ~process_io.panic
     /\ Len(process_io.data) % process_io.n = 0) =>
       /\ Len(process_io.out) = Len(process_io.chans)
       /\ \A k \in 1 .. Len(process_io.chans) :
             process_io.out[k] =
                [f \in 1 .. (Len(process_io.data) \div process_io.n) |->
                    <<f - 1, process_io.chans[k]>>]

IsCc127(message) ==
    /\ get_message_type(message) = "ControlChange"
    /\ Len(message) >= 3
    /\ message[3] = 127
ActsOf(out) == [k \in DOMAIN out |-> out[k].act]
ExactOnly(cfg) == SelectSeq(cfg, LAMBDA t : t[1] # ANY_CHANNEL_INTERNAL)
WildcardOnly(cfg) == SelectSeq(cfg, LAMBDA t : t[1] = ANY_CHANNEL_INTERNAL)
Fired(a, i) == \E k \in DOMAIN midi_io.out : midi_io.out[k] = [act |-> a, by |-> i]

\* C17: the MIDI input callback sends nothing before a message arrives, and
\* nothing for a message that is not a Control Change or whose value is not
\* 127, whatever the configured triples.
C17_OnlyCcValue127 ==
    /\ ~midi_io.done => to_controller = <<>>
    /\ (midi_io.done /\ ~IsCc127(midi_io.msg)) =>
          midi_io.out = <<>> /\ to_controller = <<>>
    /\ Len(to_controller) = Len(midi_io.out)

\* a Control Change on the channel and with the start CC of a configured
\* triple, value 0, was handled
C17_Witness ==
    /\ midi_io.done
    /\ midi_io.cfg = <<<<1, 10, 11>>>>
    /\ midi_io.msg = <<11 * 16 + 1, 10, 0>>
    /\ to_controller = <<>>

\* C18: for a Control Change with value 127, every configured triple whose
\* concrete channel is the message's channel sends Start if the CC is its
\* start CC and Stop if the CC is its stop CC.
C18_EveryExactTripleFires ==
    (midi_io.done /\ IsCc127(midi_io.msg)) =>
       \A i \in DOMAIN midi_io.cfg :
          midi_io.cfg[i][1] = get_channel(midi_io.msg) =>
             /\ midi_io.msg[2] = midi_io.cfg[i][2] => Fired("Start", i)
             /\ midi_io.msg[2] = midi_io.cfg[i][3] => Fired("Stop", i)

\* C19: for a Control Change with value 127 on any channel 0..15 every
\* wildcard triple sends Start for its start CC and Stop for its stop CC; a
\* triple with a concrete channel sends only for a message on that channel,
\* and what is sent is Start only for the start CC, Stop only for the stop
\* CC; with the single triple (1,10,11), (channel 1, cc 10, 127) sends Start
\* and (channel 2, cc 10, 127) sends nothing.
C19_WildcardEveryChannelExactOwn ==
    midi_io.done =>
       /\ IsCc127(midi_io.msg) =>
             \A i \in DOMAIN midi_io.cfg :
                midi_io.cfg[i][1] = ANY_CHANNEL_INTERNAL =>
                   /\ midi_io.msg[2] = midi_io.cfg[i][2] => Fired("Start", i)
                   /\ midi_io.msg[2] = midi_io.cfg[i][3] => Fired("Stop", i)
       /\ \A k \in DOMAIN midi_io.out :
             LET t == midi_io.cfg[midi_io.out[k].by] IN
             /\ t[1] # ANY_CHANNEL_INTERNAL => t[1] = get_channel(midi_io.msg)
             /\ midi_io.out[k].act = "Start" => midi_io.msg[2] = t[2]
             /\ midi_io.out[k].act = "Stop" => midi_io.msg[2] = t[3]
       /\ midi_io.cfg = <<<<1, 10, 11>>>> =>
             /\ midi_io.msg = <<11 * 16 + 1, 10, 127>> =>
                   ActsOf(midi_io.out) = <<"Start">>
             /\ midi_io.msg = <<11 * 16 + 2, 10, 127>> => midi_io.out = <<>>

\* on channel 2 the wildcard triple sent Start and the triple of channel 1
\* sent nothing
C19_Witness ==
    /\ midi_io.done
    /\ midi_io.cfg = <<<<255, 10, 11>>, <<1, 10, 11>>>>
    /\ midi_io.msg = <<11 * 16 + 2, 10, 127>>
    /\ midi_io.out = <<[act |-> "Start", by |-> 1]>>

\* C20: what is sent for a message is what the exact-channel triples alone
\* would send followed by what the wildcard triples alone would send; when an
\* exact-channel triple and a wildcard triple both match a Control Change
\* with value 127, at least two actions are sent, the first by an
\* exact-channel triple and a later one by each matching wildcard triple.
C20_ExactAndWildcardBothFire ==
    midi_io.done =>
       /\ ActsOf(midi_io.out) =
             ActsOf(MidiInputCallback(ExactOnly(midi_io.cfg), midi_io.msg))
             \o ActsOf(MidiInputCallback(WildcardOnly(midi_io.cfg), midi_io.msg))
       /\ (/\ IsCc127(midi_io.msg)
           /\ ActiveConfig(midi_io.cfg, get_channel(midi_io.msg), midi_io.msg[2]) # <<>>
           /\ AnyChannelReceiveConfigs(midi_io.cfg, midi_io.msg[2]) # <<>>) =>
             /\ Len(midi_io.out) >= 2
             /\ midi_io.cfg[midi_io.out[1].by][1] = get_channel(midi_io.msg)
             /\ \A j \in DOMAIN midi_io.cfg :
                   (/\ midi_io.cfg[j][1] = ANY_CHANNEL_INTERNAL
                    /\ midi_io.msg[2] \in {midi_io.cfg[j][2], midi_io.cfg[j][3]}) =>
                      \E k \in 2 .. Len(midi_io.out) : midi_io.out[k].by = j
             /\ \A k, l \in DOMAIN midi_io.out :
                   (/\ midi_io.cfg[midi_io.out[k].by][1] # ANY_CHANNEL_INTERNAL
                    /\ midi_io.cfg[midi_io.out[l].by][1] = ANY_CHANNEL_INTERNAL)
                      => k < l

\* the wildcard triple is configured first, the exact-channel triple second:
\* the exact-channel Start was sent first, then the wildcard Start
C20_Witness ==
    /\ midi_io.done
    /\ midi_io.cfg = <<<<255, 10, 11>>, <<1, 10, 11>>>>
    /\ midi_io.msg = <<11 * 16 + 1, 10, 127>>
    /\ midi_io.out = <<[act |-> "Start", by |-> 2], [act |-> "Start", by |-> 1]>>
    /\ ActsOf(to_controller) = <<"Start", "Start">>

Parsed == call.fn = "parse_midi_config" /\ call.done
Accepted == Parsed /\ call.ret.ok
\* every triple of the accepted mapping
ParsedTriples ==
    UNION {{call.ret.ports[i][2][k] : k \in DOMAIN call.ret.ports[i][2]} :
              i \in DOMAIN call.ret.ports}
HasFirstTriple(g) == g.shape # <<>> /\ g.shape[1] >= 1
\* the text written from g is a sentence of the grammar
IsSentence(g) ==
    /\ g.shape # <<>>
    /\ \A i \in DOMAIN g.shape : g.shape[i] >= 1
    /\ g.chan \in {<<"*">>, <<"1", "5">>, <<"2", "5", "5">>}
    /\ g.cc = <<"7">>
    /\ g.tail = <<>>
ExpectedTriple(g, i, j) ==
    IF i = 1 /\ j = 1
    THEN <<IF g.chan = <<"1", "5">> THEN 15 ELSE 255, 7, 8>>
    ELSE <<i, j, 3>>
ExpectedName(g, i) ==
    IF i = 1 \/ g.dup THEN <<"a", " ", "b">> ELSE <<"q", DigitChar(i)>>

\* C21: in an accepted mapping every channel is in 0..15 or is the sentinel
\* 255, and the sentinel is there only if the text holds a star.
C21_ChannelConcreteOrStar ==
    Accepted =>
       \A t \in ParsedTriples :
          /\ t[1] \in 0 .. 15 \/ t[1] = ANY_CHANNEL_INTERNAL
          /\ t[1] = ANY_CHANNEL_INTERNAL =>
                \E k \in DOMAIN call.arg.text : call.arg.text[k] = "*"

\* C22: a text with an empty port list, an empty triple list, text after the
\* closing bracket, a non-numeric channel, or a number above 255 is rejected.
C22_NonSentencesRejected ==
    /\ Accepted =>
          /\ call.ret.ports # <<>>
          /\ \A i \in DOMAIN call.ret.ports : call.ret.ports[i][2] # <<>>
          /\ multispace0(call.ret.rest) = <<>>
    /\ (/\ Parsed /\ HasFirstTriple(call.arg.gen)
        /\ \/ call.arg.gen.chan \in {<<"x">>, <<"2", "5", "6">>}
           \/ call.arg.gen.cc = <<"2", "5", "6">>) => ~call.ret.ok

\* C23: a sentence of the grammar is accepted; each port's name is the text
\* before its bracket without the white space before and after it, its
\* triples are in the order written, whatever white space is put around
\* brackets, parentheses, commas and numbers.
C23_NamesTrimmedOrderKept ==
    (Parsed /\ IsSentence(call.arg.gen)) =>
       /\ call.ret.ok
       /\ Len(call.ret.ports) = Len(call.arg.gen.shape)
       /\ \A i \in DOMAIN call.ret.ports :
             /\ call.ret.ports[i][1] = ExpectedName(call.arg.gen, i)
             /\ call.ret.ports[i][2] =
                   [j \in 1 .. call.arg.gen.shape[i] |->
                       ExpectedTriple(call.arg.gen, i, j)]

Listened == call.fn = "listen" /\ call.done

\* C24: when a pattern of the input mapping matches no hardware port,
\* listen() returns Err.
C24_NoMatchIsFatal ==
    (/\ Listened
     /\ \E pat \in call.arg.input_config :
           \A h \in DOMAIN call.arg.ports : ~glob_match(pat, call.arg.ports[h]))
       => ~call.ret.ok

\* C25: after listen() every pattern has, for every hardware port it
\* matches, a live binding of that port carrying the pattern's triples.
C25_BindingPerPatternAndPort ==
    (Listened /\ call.ret.ok) =>
       \A pat \in call.arg.input_config :
          \A h \in DOMAIN call.arg.ports :
             glob_match(pat, call.arg.ports[h]) =>
                \E c \in call.ret.input_connections :
                   c.port = h /\ c.configs = pat

\* the messages of a packet in their order of occurrence
RECURSIVE OscLeaves(_)
OscLeaves(packet) ==
    IF ~packet.bundle THEN <<packet>>
    ELSE IF packet.content = <<>> THEN <<>>
    ELSE OscLeaves(Head(packet.content))
         \o OscLeaves(OscBundle(Tail(packet.content)))
OscControl(packet) ==
    SelectSeq(OscLeaves(packet),
              LAMBDA m : m.addr \in {"/smrec/start", "/smrec/stop"})

\* C26: nothing is sent before the packet is handled; after it, the
\* to-controller channel holds, in the order of occurrence of the packet's
\* messages at any depth, one Start for each /smrec/start message and one
\* Stop for each /smrec/stop message, and nothing for any other address.
C26_OscPacketActions ==
    call.fn = "handle_packet" =>
       /\ ~call.done => to_controller = <<>>
       /\ call.done =>
             /\ Len(to_controller) = Len(OscControl(call.arg))
             /\ \A k \in DOMAIN to_controller :
                   /\ to_controller[k].src = "osc"
                   /\ to_controller[k].act =
                         IF OscControl(call.arg)[k].addr = "/smrec/start"
                         THEN "Start" ELSE "Stop"

\* a bundle holding a bundle with a stop message and then a start message
\* was handled
C26_Witness ==
    /\ call.fn = "handle_packet" /\ call.done
    /\ call.arg = OscBundle(<<OscBundle(<<OscMessage("/smrec/stop")>>),
                              OscMessage("/smrec/start")>>)
    /\ ActsOf(to_controller) = <<"Stop", "Start">>

\* C27: when OSC is configured, every outcome taken from the from-controller
\* channel has been sent over OSC, each as its message: /smrec/start,
\* /smrec/stop, or /smrec/error with one argument.
C27_OutcomesReachOsc ==
    "osc" \in notif_cfg =>
       osc_sent = [k \in 1 .. notif_next |-> OscOf(from_controller[k])]

\* C28: for Start (Stop), every wildcard triple sends its start (stop) CC
\* with value 127 on each channel 0..15, every concrete-channel triple sends
\* it once, on its channel; for Err nothing is sent.
C28_MidiOutputSends ==
    (call.fn = "midi_output" /\ call.done) =>
       LET cc(i) == IF call.arg.action = "Start" THEN call.arg.configs[i][2]
                    ELSE call.arg.configs[i][3]
           ByTriple(i) == SelectSeq(call.ret, LAMBDA e : e.by = i)
       IN  /\ call.arg.action = "Err" => call.ret = <<>>
           /\ call.arg.action # "Err" =>
                 \A i \in DOMAIN call.arg.configs :
                    IF call.arg.configs[i][1] = ANY_CHANNEL_INTERNAL
                    THEN \A chn \in 0 .. 15 :
                            \E k \in DOMAIN call.ret :
                               call.ret[k] = [by |-> i,
                                              msg |-> <<176 + chn, cc(i), 127>>]
                    ELSE ByTriple(i) =
                            <<[by |-> i,
                               msg |-> <<176 + call.arg.configs[i][1], cc(i), 127>>]>>

\* C29: a list choose_channels_to_record returns with Ok is strictly
\* ascending and every index in it is less than the device channel count.
C29_ChosenAscendingInRange ==
    (call.fn = "choose_channels_to_record" /\ call.done /\ call.ret.ok) =>
       /\ \A k \in DOMAIN call.ret.val : call.ret.val[k] < call.arg.n
       /\ \A k, l \in DOMAIN call.ret.val :
             k < l => call.ret.val[k] < call.ret.val[l]

\* C30: when the base path does not exist, writers() returns an error and
\* has created no directory and no file; when it exists and the file system
\* does what it is asked, writers() has created the directory rec_<timestamp>
\* under the base path and one open writer per recorded channel, in the
\* recorded order, each named by the channel's label in the configuration
\* file or, without one, chn_<1-based channel number>.wav.
C30_WritersBaseCheckAndNames ==
    (call.fn = "writers" /\ call.done) =>
       /\ ~call.arg.base_exists =>
             /\ ~call.ret.ok /\ ~call.ret.panic
             /\ call.ret.dir = "" /\ call.ret.writers = <<>>
       /\ (call.arg.base_exists /\ call.arg.fs = "ok") =>
             /\ call.ret.ok
             /\ call.ret.dir = "out/rec_20240101_00000" \o DigitChar(call.arg.now)
             /\ Len(call.ret.writers) = Len(call.arg.chans)
             /\ \A k \in DOMAIN call.arg.chans :
                   LET n == call.arg.chans[k] + 1 IN
                   /\ call.ret.writers[k].state = "open"
                   /\ call.ret.writers[k].path =
                         call.ret.dir \o "/" \o
                         (IF n \in DOMAIN call.arg.file THEN call.arg.file[n]
                          ELSE "chn_" \o DigitChar(n) \o ".wav")

\* channels 3 and 1 are recorded, in this order, the file names channel 1:
\* both writers are open, the first with the default name
C30_Witness ==
    /\ call.fn = "writers" /\ call.done /\ call.ret.ok
    /\ call.arg.chans = <<2, 0>>
    /\ call.arg.now = 7
    /\ call.ret.writers =
          <<[path |-> "out/rec_20240101_000007/chn_3.wav", state |-> "open"],
            [path |-> "out/rec_20240101_000007/kick.wav", state |-> "open"]>>

\* the base path is missing and writers() has returned its error
C30_WitnessMissingBase ==
    /\ call.fn = "writers" /\ call.done
    /\ ~call.arg.base_exists /\ call.arg.chans # <<>>
    /\ ~call.ret.ok

\* C31: with --duration, a recording that has started is eventually stopped
\* and its writers are finalized (or the process has ended on a failure or
\* an interrupt), with and without listeners.
C31_DurationStopsRecording ==
    (call.arg.duration /\ PlayingStreams # {})
       ~> (proc # "running" \/ (PlayingStreams = {} /\ OpenSessions = {}))

\* C32: before the first action the manager is Idle; while nothing has
\* failed and no interrupt has arrived, a start() that has returned leaves
\* Recording (the one playing stream is held, the container holds a session
\* with every writer open) and a stop() that has returned leaves Idle (no
\* stream held, no stream playing, container empty).
C32_IdleOrRecordingAfterCall ==
    /\ processed = <<>> => (stream_container = 0 /\ writers_container = 0)
    /\ (/\ proc = "running" /\ pc = "ack" /\ hpc = "idle"
        /\ result = "Ok"
        /\ \A k \in DOMAIN outcomes : outcomes[k] = "Ok") =>
          IF cur.act = "Start"
          THEN /\ stream_container # 0
               /\ PlayingStreams = {stream_container}
               /\ writers_container # 0
               /\ \A c \in Channels : wstate[writers_container][c] = "open"
          ELSE /\ stream_container = 0
               /\ PlayingStreams = {}
               /\ writers_container = 0

\* a start, a restart and a stop have returned without a failure
C32_Witness ==
    /\ proc = "running" /\ pc = "ack" /\ hpc = "idle"
    /\ result = "Ok" /\ cur.act = "Stop"
    /\ outcomes = <<"Ok", "Ok">>
    /\ \A k \in DOMAIN processed : processed[k].act = (IF k < 3 THEN "Start" ELSE "Stop")
    /\ stream_container = 0 /\ writers_container = 0

\* C33: the callback writes only to open writers of the session that is in
\* the container, and neither the controller nor the handler is finalizing
\* a session while the callback is in the middle of writing a block to it.
C33_NoWriteIntoFinalized ==
    /\ [](cbpc = "write" =>
            /\ cb_s = writers_container
            /\ cb_s \notin {fin_s, hfin_s})
    /\ [][\A e \in cb_wrote' \ cb_wrote :
             /\ e[1] = writers_container
             /\ e[1] \notin {fin_s, hfin_s}
             /\ wstate[e[1]][e[2]] = "open"]_vars

\* stop() waits for the container while the callback, which has written one
\* channel's block, is writing the next
C33_Witness ==
    /\ pc = "fin_take" /\ fin_ret = "sr"
    /\ cbpc = "write" /\ cmutex = "cb"
    /\ cb_wrote # {}


\* C34: when SIGINT arrived while a session was being recorded and the
\* controller was idle, every writer of that session is finalized by the
\* time the handler has run to its exit.
C34_HandlerFinalizesCurrent ==
    (at_sigint # 0 /\ hpc = "done") =>
        \A c \in Channels : wstate[at_sigint][c] = "finalized"

\* the handler took the session that was current at the interrupt, after a
\* restart, and finalized all of it
C34_HandlerTookCurrent ==
    /\ at_sigint >= 2 /\ hpc = "done"
    /\ \A c \in Channels : wstate[at_sigint][c] = "finalized"
    /\ pc = "recv"

\* C35: no writer is open while the interrupt handler is not registered.
C35_HandlerBeforeWriters ==
    OpenSessions # {} => handler_set

\* C36: two sessions of one process never have the same output directory
\* and no file is created by more than one session.
C36_SessionsNeverShareFiles ==
    call.fn = "sessions" =>
        \A i, j \in DOMAIN call.ret.sessions :
            i < j => /\ call.ret.sessions[i].dir # call.ret.sessions[j].dir
                     /\ call.ret.sessions[i].paths \cap call.ret.sessions[j].paths = {}

\* C37: one Control-Change message makes one triple emit at most one action.
C37_OneActionPerTriple ==
    midi_io.done =>
        \A i \in DOMAIN midi_io.cfg :
            Len(SelectSeq(midi_io.out, LAMBDA e : e.by = i)) <= 1

\* C38: every port entry of an accepted mapping text is in the parsed
\* mapping under its name with all of its triples.
C38_AllEntriesKept ==
    Accepted =>
       \A i \in DOMAIN call.ret.ports :
          /\ call.ret.ports[i][1] \in DOMAIN call.ret.map
          /\ \A k \in DOMAIN call.ret.ports[i][2] :
                \E m \in DOMAIN call.ret.map[call.ret.ports[i][1]] :
                   call.ret.map[call.ret.ports[i][1]][m] = call.ret.ports[i][2][k]

\* C39: every message the MIDI output thread sends is a Control Change:
\* its status byte is within 0xB0 .. 0xBF and making it did not overflow.
C39_AcksAreControlChange ==
    (call.fn = "midi_output" /\ call.done) =>
        \A k \in DOMAIN call.ret :
            /\ call.ret[k].msg # <<>>
            /\ call.ret[k].msg[1] \in 176 .. 191

====
